---- MODULE Spec2Model ----
\* Storage backend + audio metadata lifecycle of the audio-sharing backend.
\* Two upload handlers exist side by side:
\*   "mongo": routes/audio.js (multer / multer-s3 middleware stores the file)
\*            followed by uploadAudio of the Mongoose controller;
\*   "supa" : controllers/audioController.js uploadAudio, which calls
\*            StorageService.uploadFile / deleteFile itself.
\* Every await of a handler is a step boundary; the synchronous code between
\* two awaits (fs.*Sync calls, catch blocks, res.status) is one atomic step.
EXTENDS Integers, FiniteSets, Sequences, TLC

\* ---------------------------------------------------------------- bounds
MaxReqs == 2
MaxTime == 1
MaxFaults == 1

Reqs == 1..MaxReqs
Users == {1, 2}

\* The usernames a register request may ask for: those of Users, and one more.
Names == Users \cup {3}

\* Who a request on an optionalAuthMiddleware route acts for: a user, or
\* nobody (req.userId undefined, written 0).
Callers == {0} \cup Users

\* ---------------------------------------------------------------- data
MoodEnum ==
  {"happy", "sad", "energetic", "calm", "romantic", "angry", "nostalgic", "chill",
   "party", "focus", "melancholic", "upbeat", "relaxed", "intense", "dreamy"}

EnvironmentEnum ==
  {"home", "office", "car", "gym", "outdoors", "cafe", "rainy day", "sunny day",
   "night", "morning", "evening", "study", "work", "sleep", "commute", "social"}

\* String.prototype.toLowerCase on the values the requests carry.
toLowerCase(s) ==
  CASE s = "Calm" -> "calm"
    [] s = "HOME" -> "home"
    [] s = "Happy" -> "happy"
    [] OTHER -> s

\* The request bodies the model submits: [file] is whether the multipart body
\* carried a file, "" is an absent field, ext is path.extname(originalname),
\* isPublic is whether the body's isPublic is 'true' or true.
InputCases ==
  { [file |-> FALSE, title |-> "t", mood |-> "calm",    environment |-> "home", ext |-> ".mp3", genre |-> "", isPublic |-> FALSE],
    [file |-> TRUE,  title |-> "t", mood |-> "calm",    environment |-> "home", ext |-> ".mp3", genre |-> "", isPublic |-> FALSE],
    [file |-> TRUE,  title |-> "t", mood |-> "Calm",    environment |-> "home", ext |-> ".wav", genre |-> "", isPublic |-> TRUE],
    [file |-> TRUE,  title |-> "",  mood |-> "calm",    environment |-> "home", ext |-> ".mp3", genre |-> "", isPublic |-> FALSE],
    [file |-> TRUE,  title |-> "t", mood |-> "",        environment |-> "home", ext |-> ".mp3", genre |-> "", isPublic |-> FALSE],
    [file |-> TRUE,  title |-> "t", mood |-> "calm",    environment |-> "",     ext |-> ".mp3", genre |-> "", isPublic |-> FALSE],
    [file |-> TRUE,  title |-> "t", mood |-> "furious", environment |-> "home", ext |-> ".mp3", genre |-> "", isPublic |-> FALSE] }

NoInput ==
  [file |-> FALSE, title |-> "", mood |-> "", environment |-> "", ext |-> "",
   genre |-> "", isPublic |-> FALSE]

NoKey == [pfx |-> "none", ts |-> 0, rnd |-> 0, ext |-> ""]

\* routes/audio.js: 'audio-' + Date.now() + '-' + Math.round(Math.random()*1E9) + ext.
\* The random suffix is one draw out of 1e9; it is modelled as a value no other
\* request draws (the request's own number).
multerKey(r, t, e) == [pfx |-> "audio-", ts |-> t, rnd |-> r, ext |-> e]

\* StorageService.uploadFile: `${Date.now()}${path.extname(file.originalname)}`.
uniqueFilename(t, e) == [pfx |-> "", ts |-> t, rnd |-> 0, ext |-> e]

\* A document slot that holds no AudioRecord.
NoDoc ==
  [ id |-> 0, via |-> "none", key |-> NoKey, s3 |-> FALSE, owner |-> 0,
    title |-> "", mood |-> "", environment |-> "", genre |-> "",
    isPublic |-> FALSE, isActive |-> FALSE, playCount |-> 0, likes |-> 0,
    createdAt |-> 0 ]

\* req.query / req.body of the list handlers; "" is an absent parameter.
NoQuery ==
  [ mood |-> "", environment |-> "", genre |-> "", q |-> "", page |-> 1,
    limit |-> 0, includeOwn |-> FALSE ]

\* req.body of updateAudio; isPublic "undefined" is an absent field.
NoPatch == [mood |-> "", environment |-> "", isPublic |-> "undefined"]

NoPagination ==
  [ currentPage |-> 0, totalPages |-> 0, totalCount |-> 0, hasNext |-> FALSE,
    hasPrev |-> FALSE ]

\* Passwords are strings, written as sequences so that a hash and a plaintext
\* can be compared; <<>> is undefined (a document loaded without the field).
NoPassword == <<>>

\* schema minlength of password, and changePassword's own check.
MinLength == 6

\* The passwords the requests carry.
Pass1 == <<"s", "e", "c", "r", "t", "1">>
Pass2 == <<"s", "e", "c", "r", "t", "2">>
Short == <<"s", "h", "o", "r", "t">>

NoUser ==
  [id |-> 0, username |-> 0, email |-> 0, password |-> NoPassword, isActive |-> FALSE]

\* req.body of the account handlers.
NoBody ==
  [username |-> 0, email |-> 0, password |-> NoPassword, newPassword |-> NoPassword]

\* The Authorization header: absent ("none"), without the Bearer prefix
\* ("malformed"), "Bearer " alone ("empty"), a token jwt.verify rejects
\* ("invalid", "expired"), or a token signed for userId ("valid").
NoToken == [kind |-> "none", userId |-> 0]

Tokens ==
  { [NoToken EXCEPT !.kind = k] : k \in {"none", "malformed", "empty", "invalid", "expired"} }
  \cup { [kind |-> "valid", userId |-> u] : u \in Users }

\* A response: status code, who asked for what, and what the body carried:
\* doc / docs are the documents the handler had loaded when it answered, info
\* says that the body holds getPublicInfo of doc, fields are the names of the
\* user fields in the body, stable that the records a paginated query
\* matches were the same at its page query and at its count query.
NoResponse ==
  [ r |-> 0, op |-> "none", caller |-> 0, code |-> 0, target |-> 0, doc |-> NoDoc,
    info |-> FALSE, query |-> NoQuery, at |-> 0, docs |-> <<>>,
    pagination |-> NoPagination, stable |-> TRUE, fields |-> {} ]

VARIABLES
  backend,       \* "local" | "s3": the configuration switch, resolved at startup
  now,           \* Date.now()
  faults,        \* infrastructure failures injected so far (fs, S3, database)
  objects,       \* the backend's stored objects: [key, by] (by = writing request)
  records,       \* the persisted AudioRecords
  totalUploads,  \* User.stats.totalUploads
  req,           \* per request: handler position, locals, and what happened
  totalPlaylists,\* User.stats.totalPlaylists
  accounts,      \* the persisted User documents
  current,       \* history: the password each user last set (register, change)
  response,      \* the last response a catalogue or account handler sent
  limiter        \* one express-rate-limit instance: its options and its store

vars ==
  <<backend, now, faults, objects, records, totalUploads, req, totalPlaylists,
    accounts, current, response, limiter>>

IdleReq ==
  [ op |-> "none", pc |-> "idle", user |-> 0, inp |-> NoInput, key |-> NoKey,
    target |-> 0, resp |-> 0,
    readAt |-> 0,           \* the Date.now() the upload's key was built from
    storeOk |-> FALSE,      \* the store step returned success
    storeFailed |-> FALSE,  \* the store step failed
    metaErr |-> "none",     \* the metadata write's failure, if any
    dbErr |-> FALSE,        \* another database call of the request failed
    fsErr |-> FALSE,        \* an fs call outside a try block threw
    rmCalled |-> FALSE,     \* a storage remove was issued for req.key
    rmAbsent |-> FALSE,     \* ... and the object was absent at that moment
    rmFault |-> FALSE,      \* ... and the backend call itself failed
    rmOut |-> "none",       \* "removed" | "noop" | "raised" | "logged"
    counted |-> FALSE,      \* the request changed totalUploads
    doc |-> NoDoc,          \* the AudioRecord the handler loaded (and edited)
    patch |-> NoPatch,      \* updateAudio: the request body
    query |-> NoQuery,      \* list handlers: the request parameters
    pool |-> {},            \* ... the records the page query matched
    docs |-> <<>>,          \* ... the documents the page query returned
    body |-> NoBody,        \* account handlers: the request body
    udoc |-> NoUser,        \* ... the User document the handler loaded
    modified |-> {},        \* ... and its modified paths
    token |-> NoToken,      \* the Authorization header of the request
    gate |-> "none" ]       \* authMiddleware: "passed" | "refused" | "failed"

exists(objs, k) == \E o \in objs : o.key = k

\* Writing an object under a key replaces whatever the key held.
put(objs, k, r) == {o \in objs : o.key # k} \cup {[key |-> k, by |-> r]}

unlink(objs, k) == {o \in objs : o.key # k}

isS3 == backend = "s3"

B2N(b) == IF b THEN 1 ELSE 0

\* n infrastructure failures happen in this step.
Inject(n) == /\ faults + n <= MaxFaults
             /\ faults' = faults + n

\* Requests are numbered in arrival order.
Arrives(r) == /\ req[r].pc = "idle"
              /\ IF r = 1 THEN TRUE ELSE req[r - 1].pc # "idle"

\* bcrypt.hash(password, 12): one-way and injective, never the identity. The
\* salt is random, so no request carries a string that equals a stored hash.
hash(p) == <<"$2a$12$">> \o p

\* bcrypt.compare(candidatePassword, this.password).
compare(candidate, stored) == stored = hash(candidate)

\* The accounts of the users whose requests the audio handlers serve: each
\* registered with the password Pass1, active, holding a valid token.
Registered ==
  { [id |-> u, username |-> u, email |-> u, password |-> hash(Pass1),
     isActive |-> TRUE] : u \in Users }

\* ---------------------------------------------------------- rate limiting
\* The largest number of requests per window: authRateLimit, uploadRateLimit.
AuthMax == 5
UploadMax == 10

\* Requests of one key that are modelled in one window beyond max, and the
\* requests of one key that are between the limiter and their response.
MaxExtra == 1
MaxOpen == 1

Ips == {1, 2}

\* The options createRateLimit passes to rateLimit(): name stands for the
\* window and the message.
createRateLimit(name, max) ==
  [name |-> name, max |-> max, skipSuccessfulRequests |-> TRUE]

authRateLimit == createRateLimit("auth", AuthMax)

uploadRateLimit == createRateLimit("upload", UploadMax)

\* keyGenerator: ip:userId when authMiddleware has run, the ip otherwise.
keyGenerator(ip, userId) == [ip |-> ip, userId |-> userId]

\* router.use(authRateLimit) runs before any authMiddleware (no req.userId);
\* uploadRateLimit runs after authMiddleware.
LimiterKeys(config) ==
  IF config.name = "auth"
  THEN {keyGenerator(ip, 0) : ip \in Ips}
  ELSE {keyGenerator(1, u) : u \in Users}

AllKeys == LimiterKeys(authRateLimit) \cup LimiterKeys(uploadRateLimit)

\* A limiter with an empty store. hits is the store's counter of the key in
\* the current window; passed and rejected count, for the window, the requests
\* the limiter handed to the next handler and those it answered with 429; open
\* counts the handed-on requests that have not been answered yet.
NewLimiter(config) ==
  [ config |-> config,
    hits |-> [k \in LimiterKeys(config) |-> 0],
    passed |-> [k \in LimiterKeys(config) |-> 0],
    rejected |-> [k \in LimiterKeys(config) |-> 0],
    open |-> [k \in LimiterKeys(config) |-> 0] ]

NotLimited ==
  UNCHANGED <<backend, now, faults, objects, records, totalUploads, req,
              totalPlaylists, accounts, current, response>>

\* The limiter middleware: store.increment(key), then 429 at once when the
\* counter is above max, next() otherwise.
RateLimit_Request(k) ==
  /\ k \in DOMAIN limiter.hits
  /\ limiter.passed[k] + limiter.rejected[k] < limiter.config.max + MaxExtra
  /\ limiter.open[k] < MaxOpen
  /\ LET totalHits == limiter.hits[k] + 1
     IN limiter' =
          IF totalHits > limiter.config.max
          THEN [limiter EXCEPT !.hits[k] = totalHits, !.rejected[k] = @ + 1]
          ELSE [limiter EXCEPT !.hits[k] = totalHits, !.passed[k] = @ + 1,
                               !.open[k] = @ + 1]
  /\ NotLimited

\* response 'finish' of a handed-on request: with skipSuccessfulRequests a
\* response with a status below 400 takes its hit back (store.decrement does
\* nothing at 0).
RateLimit_Finish(k, status) ==
  /\ k \in DOMAIN limiter.hits
  /\ limiter.open[k] > 0
  /\ limiter' =
       IF limiter.config.skipSuccessfulRequests /\ status < 400 /\ limiter.hits[k] > 0
       THEN [limiter EXCEPT !.open[k] = @ - 1, !.hits[k] = @ - 1]
       ELSE [limiter EXCEPT !.open[k] = @ - 1]
  /\ NotLimited

\* The window of the key ends: the store forgets the key.
RateLimit_Reset(k) ==
  /\ k \in DOMAIN limiter.hits
  /\ limiter.passed[k] + limiter.rejected[k] > 0
  /\ limiter' = [limiter EXCEPT !.hits[k] = 0, !.passed[k] = 0, !.rejected[k] = 0]
  /\ NotLimited

Statuses == {200, 400}

Init ==
  /\ backend \in {"local", "s3"}
  /\ now = 0
  /\ faults = 0
  /\ objects = {}
  /\ records = {}
  /\ totalUploads = [u \in Users |-> 0]
  /\ req = [r \in Reqs |-> IdleReq]
  /\ totalPlaylists = [u \in Users |-> 0]
  /\ accounts = Registered
  /\ current = [u \in Names |-> Pass1]
  /\ response = NoResponse
  /\ limiter = NewLimiter(uploadRateLimit)

\* The clock is read only to build storage keys, and keys are only compared:
\* a millisecond in which no key was built is not told apart from the next,
\* so the clock moves on only from a millisecond some upload has read.
Tick ==
  /\ now < MaxTime
  /\ \E r \in Reqs : req[r].op \in {"uploadMongo", "uploadSupa"}
                      /\ req[r].inp.file /\ req[r].readAt = now
  /\ now' = now + 1
  /\ UNCHANGED <<backend, limiter, faults, objects, records, totalUploads, req,
                 totalPlaylists, accounts, current, response>>

\* ------------------------------------------------- mongo upload handler

\* Faulty variant of CatchUpload: the cleanup's unlinkSync has no try block of its
\* own, so its failure replaces the error being handled and the answer is 500.
CatchUpload_NoInnerTry(q, errName, unlinkFault) ==
  LET tried == ~isS3 /\ exists(objects, q.key)
      code == IF tried /\ unlinkFault THEN 500
              ELSE IF errName = "ValidationError" THEN 400 ELSE 500
  IN [ objs |-> IF tried /\ ~unlinkFault THEN unlink(objects, q.key) ELSE objects,
       q |-> [q EXCEPT !.pc = "done", !.resp = code,
                       !.rmCalled = @ \/ ~isS3,
                       !.rmAbsent = @ \/ (~isS3 /\ ~tried),
                       !.rmFault = @ \/ (tried /\ unlinkFault),
                       !.rmOut = IF isS3 THEN @
                                 ELSE IF ~tried THEN "noop"
                                 ELSE IF unlinkFault THEN "raised" ELSE "removed"] ]

\* The catch block of uploadAudio: local cleanup inside try/catch, nothing for
\* S3, then 400 for a ValidationError and 500 otherwise.
\* Result: the objects and the request's fields after the block.
CatchUpload(q, errName, unlinkFault) ==
  LET tried == ~isS3 /\ exists(objects, q.key)
      code == IF errName = "ValidationError" THEN 400 ELSE 500
  IN [ objs |-> IF tried /\ ~unlinkFault THEN unlink(objects, q.key) ELSE objects,
       q |-> [q EXCEPT !.pc = "done", !.resp = code,
                       !.rmCalled = @ \/ ~isS3,
                       !.rmAbsent = @ \/ (~isS3 /\ ~tried),
                       !.rmFault = @ \/ (tried /\ unlinkFault),
                       !.rmOut = IF isS3 THEN @
                                 ELSE IF ~tried THEN "noop"
                                 ELSE IF unlinkFault THEN "logged" ELSE "removed"] ]

\* Faulty variant of MulterUpload: an engine error is ignored and the handler runs
\* with a req.file whose object was never written.
MulterUpload_IgnoresEngineError(r, u, inp, fault) ==
  /\ Arrives(r)
  /\ Inject(B2N(inp.file /\ fault))
  /\ ~inp.file => ~fault
  /\ LET q == [req[r] EXCEPT !.op = "uploadMongo", !.user = u, !.inp = inp,
                               !.readAt = now]
         k == multerKey(r, now, inp.ext)
     IN IF ~inp.file
        THEN /\ req' = [req EXCEPT ![r] = [q EXCEPT !.pc = "done", !.resp = 400]]
             /\ UNCHANGED objects
        ELSE IF fault
        THEN /\ req' = [req EXCEPT ![r] = [q EXCEPT !.pc = "handler", !.key = k,
                                                    !.storeFailed = TRUE]]
             /\ UNCHANGED objects
        ELSE /\ req' = [req EXCEPT ![r] = [q EXCEPT !.pc = "handler", !.key = k,
                                                    !.storeOk = TRUE]]
             /\ objects' = put(objects, k, r)
  /\ UNCHANGED <<backend, limiter, now, records, totalUploads,
                 totalPlaylists, accounts, current, response>>

\* upload.single('audio'): the storage engine writes the file before the
\* handler runs; an engine error goes to the application's error handler.
\* Without a file part req.file is undefined and the handler answers 400.
MulterUpload(r, u, inp, fault) ==
  /\ Arrives(r)
  /\ Inject(B2N(inp.file /\ fault))
  /\ ~inp.file => ~fault
  /\ LET q == [req[r] EXCEPT !.op = "uploadMongo", !.user = u, !.inp = inp,
                               !.readAt = now]
         k == multerKey(r, now, inp.ext)
     IN IF ~inp.file
        THEN /\ req' = [req EXCEPT ![r] = [q EXCEPT !.pc = "done", !.resp = 400]]
             /\ UNCHANGED objects
        ELSE IF fault
        THEN /\ req' = [req EXCEPT ![r] = [q EXCEPT !.pc = "done", !.resp = 500,
                                                    !.storeFailed = TRUE]]
             /\ UNCHANGED objects
        ELSE /\ req' = [req EXCEPT ![r] = [q EXCEPT !.pc = "handler", !.key = k,
                                                    !.storeOk = TRUE]]
             /\ objects' = put(objects, k, r)
  /\ UNCHANGED <<backend, limiter, now, records, totalUploads,
                 totalPlaylists, accounts, current, response>>

\* uploadAudio up to `await audio.save()`: the required-field check, with
\* fs.unlinkSync(req.file.path) outside any inner try (req.file.path is
\* undefined for multer-s3 files).
UploadAudio_Validate(r, unlinkFault, unlinkFault2) ==
  /\ req[r].op = "uploadMongo" /\ req[r].pc = "handler"
  /\ LET q == req[r]
         missing == q.inp.title = "" \/ q.inp.mood = "" \/ q.inp.environment = ""
         throws == unlinkFault \/ ~exists(objects, q.key)
     IN /\ Inject(IF missing /\ ~isS3
                  THEN B2N(unlinkFault) + B2N(unlinkFault /\ unlinkFault2) ELSE 0)
        /\ (~missing \/ isS3) => (~unlinkFault /\ ~unlinkFault2)
        /\ ~unlinkFault => ~unlinkFault2
        /\ IF ~missing
           THEN /\ req' = [req EXCEPT ![r] = [q EXCEPT !.pc = "save"]]
                /\ UNCHANGED objects
           ELSE IF isS3
           THEN /\ req' = [req EXCEPT ![r] = [q EXCEPT !.pc = "done", !.resp = 400]]
                /\ UNCHANGED objects
           ELSE IF ~throws
           THEN /\ req' = [req EXCEPT ![r] =
                             [q EXCEPT !.pc = "done", !.resp = 400, !.rmCalled = TRUE,
                                       !.rmOut = "removed"]]
                /\ objects' = unlink(objects, q.key)
           ELSE LET c == CatchUpload([q EXCEPT !.fsErr = TRUE, !.rmCalled = TRUE,
                                               !.rmFault = unlinkFault],
                                     "Error", unlinkFault2)
                IN /\ req' = [req EXCEPT ![r] = c.q]
                   /\ objects' = c.objs
  /\ UNCHANGED <<backend, limiter, now, records, totalUploads,
                 totalPlaylists, accounts, current, response>>

\* Mongoose validation of the document uploadAudio builds (title trimmed and
\* required, mood and environment lower-cased and checked against the enums).
ValidAudio(inp) ==
  /\ inp.title # ""
  /\ toLowerCase(inp.mood) \in MoodEnum
  /\ toLowerCase(inp.environment) \in EnvironmentEnum

\* The document `new Audio(audioData)` of request r.
\* genre is lower-cased when supplied; playCount, likes and isActive take the
\* schema defaults, createdAt the time of construction.
AudioDoc(r, q) ==
  [ id |-> r, via |-> "mongo", key |-> q.key, s3 |-> isS3, owner |-> q.user,
    title |-> q.inp.title, mood |-> toLowerCase(q.inp.mood),
    environment |-> toLowerCase(q.inp.environment),
    genre |-> toLowerCase(q.inp.genre), isPublic |-> q.inp.isPublic,
    isActive |-> TRUE, playCount |-> 0, likes |-> 0, createdAt |-> now ]

\* `await audio.save()`.
UploadAudio_Save(r, dbFault, unlinkFault) ==
  /\ req[r].op = "uploadMongo" /\ req[r].pc = "save"
  /\ LET q == req[r]
         bad == ~ValidAudio(q.inp)
         failed == bad \/ dbFault
     IN /\ Inject(B2N(~bad /\ dbFault) + B2N(failed /\ unlinkFault))
        /\ bad => ~dbFault
        /\ (~failed \/ isS3) => ~unlinkFault
        /\ IF ~failed
           THEN /\ records' = records \cup {AudioDoc(r, q)}
                /\ req' = [req EXCEPT ![r] = [q EXCEPT !.pc = "counter"]]
                /\ UNCHANGED objects
           ELSE LET name == IF bad THEN "ValidationError" ELSE "Error"
                    c == CatchUpload([q EXCEPT !.metaErr = name], name, unlinkFault)
                IN /\ req' = [req EXCEPT ![r] = c.q]
                   /\ objects' = c.objs
                   /\ UNCHANGED records
  /\ UNCHANGED <<backend, limiter, now, totalUploads, totalPlaylists, accounts, current, response>>

\* `await User.findByIdAndUpdate(req.userId, {$inc: {'stats.totalUploads': 1}})`.
UploadAudio_IncUploads(r, dbFault, unlinkFault) ==
  /\ req[r].op = "uploadMongo" /\ req[r].pc = "counter"
  /\ Inject(B2N(dbFault) + B2N(dbFault /\ unlinkFault))
  /\ (~dbFault \/ isS3) => ~unlinkFault
  /\ LET q == req[r]
     IN IF ~dbFault
        THEN /\ totalUploads' = [totalUploads EXCEPT ![q.user] = @ + 1]
             /\ req' = [req EXCEPT ![r] = [q EXCEPT !.pc = "populate", !.counted = TRUE]]
             /\ UNCHANGED objects
        ELSE LET c == CatchUpload([q EXCEPT !.dbErr = TRUE], "Error", unlinkFault)
             IN /\ req' = [req EXCEPT ![r] = c.q]
                /\ objects' = c.objs
                /\ UNCHANGED totalUploads
  /\ UNCHANGED <<backend, limiter, now, records, totalPlaylists, accounts, current, response>>

\* `await audio.populate(...)`, then the 201 response.
UploadAudio_Populate(r, dbFault, unlinkFault) ==
  /\ req[r].op = "uploadMongo" /\ req[r].pc = "populate"
  /\ Inject(B2N(dbFault) + B2N(dbFault /\ unlinkFault))
  /\ (~dbFault \/ isS3) => ~unlinkFault
  /\ LET q == req[r]
     IN IF ~dbFault
        THEN /\ req' = [req EXCEPT ![r] = [q EXCEPT !.pc = "done", !.resp = 201]]
             /\ UNCHANGED objects
        ELSE LET c == CatchUpload([q EXCEPT !.dbErr = TRUE], "Error", unlinkFault)
             IN /\ req' = [req EXCEPT ![r] = c.q]
                /\ objects' = c.objs
  /\ UNCHANGED <<backend, limiter, now, records, totalUploads,
                 totalPlaylists, accounts, current, response>>

\* -------------------------------------------------- storage service

\* Faulty variant of deleteFile: the local branch calls unlinkSync without the
\* existsSync guard, so an absent file throws ENOENT.
deleteFile_NoExistsGuard(objs, k, fault) ==
  IF isS3
  THEN [objs |-> IF fault THEN objs ELSE unlink(objs, k), raised |-> fault]
  ELSE IF exists(objs, k)
       THEN [objs |-> IF fault THEN objs ELSE unlink(objs, k), raised |-> fault]
       ELSE [objs |-> objs, raised |-> TRUE]

\* StorageService.deleteFile: deleteObject on S3 (which answers success for an
\* absent key and rejects only when the call itself fails); on disk
\* existsSync guards unlinkSync. Result: the objects left and whether it threw.
deleteFile(objs, k, fault) ==
  IF isS3
  THEN [objs |-> IF fault THEN objs ELSE unlink(objs, k), raised |-> fault]
  ELSE IF exists(objs, k)
       THEN [objs |-> IF fault THEN objs ELSE unlink(objs, k), raised |-> fault]
       ELSE [objs |-> objs, raised |-> FALSE]

\* What a remove left behind, for the request's history.
RemoveOutcome(before, out) ==
  IF out.raised THEN "raised" ELSE IF out.objs = before THEN "noop" ELSE "removed"

\* -------------------------------------------------- supa upload handler

\* The row uploadAudio inserts: title || originalName, mood || 'unspecified',
\* environment || 'unspecified'; nothing is lower-cased or checked here.
\* The row has no genre, no play count and no public flag: the insert names
\* no such column, so a row is never marked public.
AudioRow(r, q) ==
  [ id |-> r, via |-> "supa", key |-> q.key, s3 |-> isS3, owner |-> q.user,
    title |-> IF q.inp.title = "" THEN "originalName" ELSE q.inp.title,
    mood |-> IF q.inp.mood = "" THEN "unspecified" ELSE q.inp.mood,
    environment |-> IF q.inp.environment = "" THEN "unspecified"
                    ELSE q.inp.environment,
    genre |-> "", isPublic |-> FALSE, isActive |-> TRUE, playCount |-> 0,
    likes |-> 0, createdAt |-> now ]

\* uploadAudio up to the first await inside storage.uploadFile: the file
\* check, the key from Date.now(), and for local disk the renameSync itself.
SupaUpload_Start(r, u, inp, renameFault) ==
  /\ Arrives(r)
  /\ Inject(B2N(renameFault))
  /\ (~inp.file \/ isS3) => ~renameFault
  /\ LET q == [req[r] EXCEPT !.op = "uploadSupa", !.user = u, !.inp = inp,
                               !.readAt = now]
         k == uniqueFilename(now, inp.ext)
     IN IF ~inp.file
        THEN /\ req' = [req EXCEPT ![r] = [q EXCEPT !.pc = "done", !.resp = 400]]
             /\ UNCHANGED objects
        ELSE IF isS3
        THEN /\ req' = [req EXCEPT ![r] = [q EXCEPT !.pc = "s3upload", !.key = k]]
             /\ UNCHANGED objects
        ELSE IF renameFault
        THEN /\ req' = [req EXCEPT ![r] = [q EXCEPT !.pc = "done", !.resp = 500,
                                                    !.key = k, !.storeFailed = TRUE,
                                                    !.fsErr = TRUE]]
             /\ UNCHANGED objects
        ELSE /\ req' = [req EXCEPT ![r] = [q EXCEPT !.pc = "insert", !.key = k,
                                                    !.storeOk = TRUE]]
             /\ objects' = put(objects, k, r)
  /\ UNCHANGED <<backend, limiter, now, records, totalUploads,
                 totalPlaylists, accounts, current, response>>

\* Faulty variant of SupaUpload_S3Put: a rejected s3.upload is swallowed and the
\* handler goes on to the insert.
SupaUpload_S3Put_SwallowsError(r, s3Fault, unlinkFault) ==
  /\ req[r].op = "uploadSupa" /\ req[r].pc = "s3upload"
  /\ Inject(B2N(s3Fault) + B2N(unlinkFault))
  /\ s3Fault => ~unlinkFault
  /\ LET q == req[r]
     IN IF s3Fault
        THEN /\ req' = [req EXCEPT ![r] = [q EXCEPT !.pc = "insert",
                                                    !.storeFailed = TRUE]]
             /\ UNCHANGED objects
        ELSE IF unlinkFault
        THEN /\ req' = [req EXCEPT ![r] = [q EXCEPT !.pc = "done", !.resp = 500,
                                                    !.storeFailed = TRUE,
                                                    !.fsErr = TRUE]]
             /\ objects' = put(objects, q.key, r)
        ELSE /\ req' = [req EXCEPT ![r] = [q EXCEPT !.pc = "insert", !.storeOk = TRUE]]
             /\ objects' = put(objects, q.key, r)
  /\ UNCHANGED <<backend, limiter, now, records, totalUploads,
                 totalPlaylists, accounts, current, response>>

\* `await this.s3.upload(params).promise()` and the fs.unlinkSync of the
\* staging file that follows it inside uploadFile.
SupaUpload_S3Put(r, s3Fault, unlinkFault) ==
  /\ req[r].op = "uploadSupa" /\ req[r].pc = "s3upload"
  /\ Inject(B2N(s3Fault) + B2N(unlinkFault))
  /\ s3Fault => ~unlinkFault
  /\ LET q == req[r]
     IN IF s3Fault
        THEN /\ req' = [req EXCEPT ![r] = [q EXCEPT !.pc = "done", !.resp = 500,
                                                    !.storeFailed = TRUE]]
             /\ UNCHANGED objects
        ELSE IF unlinkFault
        THEN /\ req' = [req EXCEPT ![r] = [q EXCEPT !.pc = "done", !.resp = 500,
                                                    !.storeFailed = TRUE,
                                                    !.fsErr = TRUE]]
             /\ objects' = put(objects, q.key, r)
        ELSE /\ req' = [req EXCEPT ![r] = [q EXCEPT !.pc = "insert", !.storeOk = TRUE]]
             /\ objects' = put(objects, q.key, r)
  /\ UNCHANGED <<backend, limiter, now, records, totalUploads,
                 totalPlaylists, accounts, current, response>>

\* `await supabase.from('audios').insert(...).select()`. Whether the insert
\* reports an error depends on the table's constraints, which the repository
\* does not hold: either outcome is possible for any row. On error the local
\* deleteFile runs at once; the S3 deleteObject is awaited.
SupaUpload_Insert(r, error, unlinkFault) ==
  /\ req[r].op = "uploadSupa" /\ req[r].pc = "insert"
  /\ Inject(B2N(unlinkFault))
  /\ (~error \/ isS3) => ~unlinkFault
  /\ LET q == req[r]
         out == deleteFile(objects, q.key, unlinkFault)
     IN IF ~error
        THEN /\ records' = records \cup {AudioRow(r, q)}
             /\ req' = [req EXCEPT ![r] = [q EXCEPT !.pc = "done", !.resp = 201]]
             /\ UNCHANGED objects
        ELSE IF isS3
        THEN /\ req' = [req EXCEPT ![r] = [q EXCEPT !.pc = "compensate",
                                                    !.metaErr = "Error"]]
             /\ UNCHANGED <<objects, records>>
        ELSE /\ req' = [req EXCEPT ![r] =
                          [q EXCEPT !.pc = "done", !.resp = 500, !.metaErr = "Error",
                                    !.rmCalled = TRUE,
                                    !.rmAbsent = ~exists(objects, q.key),
                                    !.rmFault = unlinkFault,
                                    !.rmOut = RemoveOutcome(objects, out)]]
             /\ objects' = out.objs
             /\ UNCHANGED records
  /\ UNCHANGED <<backend, limiter, now, totalUploads, totalPlaylists, accounts, current, response>>

\* `await storage.deleteFile(filePath)` on S3; `throw error` or the rejection
\* of deleteFile both end in the handler's catch, which answers 500.
SupaUpload_Compensate(r, s3Fault) ==
  /\ req[r].op = "uploadSupa" /\ req[r].pc = "compensate"
  /\ Inject(B2N(s3Fault))
  /\ LET q == req[r]
         out == deleteFile(objects, q.key, s3Fault)
     IN /\ req' = [req EXCEPT ![r] =
                     [q EXCEPT !.pc = "done", !.resp = 500, !.rmCalled = TRUE,
                               !.rmAbsent = ~exists(objects, q.key),
                               !.rmFault = s3Fault,
                               !.rmOut = RemoveOutcome(objects, out)]]
        /\ objects' = out.objs
  /\ UNCHANGED <<backend, limiter, now, records, totalUploads,
                 totalPlaylists, accounts, current, response>>

\* ------------------------------------------------------- deleteAudio

Found(id) == {a \in records : a.id = id /\ a.via = "mongo"}

\* `await Audio.findById(id)`, the 404 and 403 answers, and for a local file
\* the existsSync / unlinkSync pair inside its try block.
DeleteAudio_Find(r, u, id, dbFault, unlinkFault) ==
  /\ Arrives(r)
  /\ LET q == [req[r] EXCEPT !.op = "delete", !.user = u, !.target = id]
         hit == Found(id)
         audio == CHOOSE a \in hit : TRUE
         owned == hit # {} /\ audio.owner = u
         there == exists(objects, audio.key)
     IN /\ Inject(B2N(dbFault) + B2N(unlinkFault))
        /\ dbFault => ~unlinkFault
        /\ unlinkFault => (owned /\ ~audio.s3 /\ there)
        /\ IF dbFault
           THEN /\ req' = [req EXCEPT ![r] = [q EXCEPT !.pc = "done", !.resp = 500,
                                                       !.dbErr = TRUE]]
                /\ UNCHANGED objects
           ELSE IF hit = {}
           THEN /\ req' = [req EXCEPT ![r] = [q EXCEPT !.pc = "done", !.resp = 404]]
                /\ UNCHANGED objects
           ELSE IF ~owned
           THEN /\ req' = [req EXCEPT ![r] = [q EXCEPT !.pc = "done", !.resp = 403]]
                /\ UNCHANGED objects
           ELSE IF audio.s3
           THEN /\ req' = [req EXCEPT ![r] = [q EXCEPT !.pc = "s3delete",
                                                       !.key = audio.key]]
                /\ UNCHANGED objects
           ELSE /\ req' = [req EXCEPT ![r] =
                             [q EXCEPT !.pc = "dbdelete", !.key = audio.key,
                                       !.rmCalled = TRUE, !.rmAbsent = ~there,
                                       !.rmFault = unlinkFault,
                                       !.rmOut = IF ~there THEN "noop"
                                                 ELSE IF unlinkFault THEN "logged"
                                                 ELSE "removed"]]
                /\ objects' = IF there /\ ~unlinkFault
                              THEN unlink(objects, audio.key) ELSE objects
  /\ UNCHANGED <<backend, limiter, now, records, totalUploads,
                 totalPlaylists, accounts, current, response>>

\* Faulty variant of DeleteAudio_S3: the send has no try block, so its rejection
\* reaches the handler's catch and the request answers 500.
DeleteAudio_S3_Propagates(r, s3Fault) ==
  /\ req[r].op = "delete" /\ req[r].pc = "s3delete"
  /\ Inject(B2N(s3Fault))
  /\ LET q == req[r]
         there == exists(objects, q.key)
     IN /\ req' = [req EXCEPT ![r] =
                     [q EXCEPT !.pc = IF s3Fault THEN "done" ELSE "dbdelete",
                               !.resp = IF s3Fault THEN 500 ELSE @,
                               !.rmCalled = TRUE,
                               !.rmAbsent = ~there, !.rmFault = s3Fault,
                               !.rmOut = IF s3Fault THEN "raised"
                                         ELSE IF there THEN "removed" ELSE "noop"]]
        /\ objects' = IF s3Fault THEN objects ELSE unlink(objects, q.key)
  /\ UNCHANGED <<backend, limiter, now, records, totalUploads,
                 totalPlaylists, accounts, current, response>>

\* `await s3Client.send(new DeleteObjectCommand(...))` inside its try block.
DeleteAudio_S3(r, s3Fault) ==
  /\ req[r].op = "delete" /\ req[r].pc = "s3delete"
  /\ Inject(B2N(s3Fault))
  /\ LET q == req[r]
         there == exists(objects, q.key)
     IN /\ req' = [req EXCEPT ![r] =
                     [q EXCEPT !.pc = "dbdelete", !.rmCalled = TRUE,
                               !.rmAbsent = ~there, !.rmFault = s3Fault,
                               !.rmOut = IF s3Fault THEN "logged"
                                         ELSE IF there THEN "removed" ELSE "noop"]]
        /\ objects' = IF s3Fault THEN objects ELSE unlink(objects, q.key)
  /\ UNCHANGED <<backend, limiter, now, records, totalUploads,
                 totalPlaylists, accounts, current, response>>

\* `await Audio.findByIdAndDelete(id)`.
DeleteAudio_Db(r, dbFault) ==
  /\ req[r].op = "delete" /\ req[r].pc = "dbdelete"
  /\ Inject(B2N(dbFault))
  /\ LET q == req[r]
     IN IF dbFault
        THEN /\ req' = [req EXCEPT ![r] = [q EXCEPT !.pc = "done", !.resp = 500,
                                                    !.dbErr = TRUE]]
             /\ UNCHANGED records
        ELSE /\ req' = [req EXCEPT ![r] = [q EXCEPT !.pc = "counter"]]
             /\ records' = records \ Found(q.target)
  /\ UNCHANGED <<backend, limiter, now, objects, totalUploads,
                 totalPlaylists, accounts, current, response>>

\* `await User.findByIdAndUpdate(req.userId, {$inc: {'stats.totalUploads': -1}})`,
\* then the success response.
DeleteAudio_DecUploads(r, dbFault) ==
  /\ req[r].op = "delete" /\ req[r].pc = "counter"
  /\ Inject(B2N(dbFault))
  /\ LET q == req[r]
     IN IF dbFault
        THEN /\ req' = [req EXCEPT ![r] = [q EXCEPT !.pc = "done", !.resp = 500,
                                                    !.dbErr = TRUE]]
             /\ UNCHANGED totalUploads
        ELSE /\ req' = [req EXCEPT ![r] = [q EXCEPT !.pc = "done", !.resp = 200,
                                                    !.counted = TRUE]]
             /\ totalUploads' = [totalUploads EXCEPT ![q.user] = @ - 1]
  /\ UNCHANGED <<backend, limiter, now, objects, records, totalPlaylists, accounts, current, response>>

\* ------------------------------------------------------- the catalogue
\* The handlers that read and edit AudioRecords. They are run against a
\* catalogue that earlier uploads, plays and time have left behind
\* (CatalogInit), by the two users and by callers without a token.

MaxPage == 2
MaxLimit == 2

\* Audio.getTrending's window of 7 days, in ticks of the catalogue's clock
\* (one tick stands for half a week).
SevenDays == 2

SeedInput(m, e, g, pub) ==
  [ file |-> TRUE, title |-> "t", mood |-> m, environment |-> e, ext |-> ".mp3",
    genre |-> g, isPublic |-> pub ]

\* The document of a finished Mongoose upload of user u at time t, played
\* `plays` times since.
Uploaded(id, u, inp, t, plays) ==
  [ AudioDoc(id, [IdleReq EXCEPT !.user = u, !.inp = inp,
                                 !.key = multerKey(id, t, inp.ext)])
      EXCEPT !.createdAt = t, !.playCount = plays ]

\* The row of a finished Supabase upload of user u at time t.
UploadedRow(id, u, inp, t) ==
  [ AudioRow(id, [IdleReq EXCEPT !.user = u, !.inp = inp,
                                 !.key = uniqueFilename(t, inp.ext)])
      EXCEPT !.createdAt = t ]

\* User 1 has a record older than a week, a public and a private one; user 2
\* has a public record and a row of the Supabase table.
Seeds ==
  { Uploaded(1, 1, SeedInput("calm", "home", "rock", TRUE), 0, 2),
    Uploaded(2, 1, SeedInput("Calm", "office", "", TRUE), 1, 1),
    Uploaded(3, 1, SeedInput("calm", "HOME", "", FALSE), 2, 0),
    Uploaded(4, 2, SeedInput("calm", "home", "", TRUE), 2, 1),
    UploadedRow(5, 2, SeedInput("Calm", "rainy day", "", FALSE), 1) }

\* The ids requests ask for: an id no record has, user 1's public record 2
\* and user 1's private record 3.
Targets == {0, 2, 3}

CatalogInit ==
  /\ backend \in {"local", "s3"}
  /\ now = SevenDays + 1
  /\ faults = 0
  /\ records = Seeds
  /\ objects = {[key |-> a.key, by |-> a.id] : a \in Seeds}
  /\ totalUploads =
       [u \in Users |-> Cardinality({a \in Seeds : a.via = "mongo" /\ a.owner = u})]
  /\ req = [r \in Reqs |-> IdleReq]
  /\ totalPlaylists = [u \in Users |-> 0]
  /\ accounts = Registered
  /\ current = [u \in Names |-> Pass1]
  /\ response = NoResponse
  /\ limiter = NewLimiter(uploadRateLimit)

\* What a handler of the catalogue leaves of its request once it has answered.
Answered(op, code) == [IdleReq EXCEPT !.op = op, !.pc = "done", !.resp = code]

Reply(r, op, u, code) ==
  [NoResponse EXCEPT !.r = r, !.op = op, !.caller = u, !.code = code, !.at = now]

\* `await Audio.findById(id)`: the document, or null (NoDoc).
findById(id) == IF Found(id) = {} THEN NoDoc ELSE CHOOSE a \in Found(id) : TRUE

\* Faulty variant of IsPrivateTo: the owner is not recognised.
IsPrivateTo_OwnerBlind(audio, u) == ~audio.isPublic

\* getAudio / playAudio:
\* !audio.isPublic && audio.uploadedBy.toString() !== req.userId?.toString()
IsPrivateTo(audio, u) == ~audio.isPublic /\ audio.owner # u

\* getAudio: one await, then 404, 403 or the record's public info.
GetAudio(r, u, id, dbFault) ==
  /\ Arrives(r)
  /\ Inject(B2N(dbFault))
  /\ LET audio == findById(id)
         code == IF dbFault THEN 500
                 ELSE IF audio = NoDoc \/ ~audio.isActive THEN 404
                 ELSE IF IsPrivateTo(audio, u) THEN 403 ELSE 200
     IN /\ req' = [req EXCEPT ![r] = Answered("get", code)]
        /\ response' = [Reply(r, "get", u, code) EXCEPT
                          !.target = id,
                          !.doc = IF dbFault THEN NoDoc ELSE audio,
                          !.info = (code = 200)]
  /\ UNCHANGED <<backend, limiter, now, objects, records, totalUploads, totalPlaylists,
                 accounts, current>>

\* playAudio up to `await audio.incrementPlayCount()`.
PlayAudio_Find(r, u, id, dbFault) ==
  /\ Arrives(r)
  /\ Inject(B2N(dbFault))
  /\ LET audio == findById(id)
         code == IF dbFault THEN 500
                 ELSE IF audio = NoDoc \/ ~audio.isActive THEN 404
                 ELSE IF IsPrivateTo(audio, u) THEN 403 ELSE 200
     IN IF code = 200
        THEN /\ req' = [req EXCEPT ![r] =
                          [IdleReq EXCEPT !.op = "play", !.pc = "save", !.user = u,
                                          !.target = id, !.doc = audio]]
             /\ UNCHANGED response
        ELSE /\ req' = [req EXCEPT ![r] = Answered("play", code)]
             /\ response' = [Reply(r, "play", u, code) EXCEPT
                               !.target = id,
                               !.doc = IF dbFault THEN NoDoc ELSE audio]
  /\ UNCHANGED <<backend, limiter, now, objects, records, totalUploads, totalPlaylists,
                 accounts, current>>

\* Faulty variant of incrementPlayCount: the count is set to one.
incrementPlayCount_StartsOver(audio) == [audio EXCEPT !.playCount = 1]

\* `this.stats.playCount += 1` on the loaded document.
incrementPlayCount(audio) == [audio EXCEPT !.playCount = @ + 1]

\* incrementPlayCount: `this.stats.playCount += 1` on the loaded document and
\* save(), which writes that value; a document deleted meanwhile makes save
\* throw. Then the response with the document's playCount.
PlayAudio_Save(r, dbFault) ==
  /\ req[r].op = "play" /\ req[r].pc = "save"
  /\ Inject(B2N(dbFault))
  /\ LET q == req[r]
         audio == incrementPlayCount(q.doc)
         stored == findById(q.target)
         code == IF dbFault \/ stored = NoDoc THEN 500 ELSE 200
     IN /\ records' = IF code = 200
                      THEN (records \ {stored})
                             \cup {[stored EXCEPT !.playCount = audio.playCount]}
                      ELSE records
        /\ req' = [req EXCEPT ![r] = [Answered("play", code) EXCEPT
                                         !.target = q.target]]
        /\ response' = [Reply(r, "play", q.user, code) EXCEPT
                          !.target = q.target, !.doc = audio, !.info = (code = 200)]
  /\ UNCHANGED <<backend, limiter, now, objects, totalUploads, totalPlaylists, accounts,
                 current>>

\* The request bodies of updateAudio.
Patches ==
  { [mood |-> "Happy", environment |-> "HOME", isPublic |-> "undefined"],
    [mood |-> "furious", environment |-> "", isPublic |-> "undefined"],
    [mood |-> "", environment |-> "", isPublic |-> "false"] }

\* updateAudio's assignments to the loaded document.
Patched(audio, p) ==
  [audio EXCEPT
     !.mood = IF p.mood # "" THEN toLowerCase(p.mood) ELSE @,
     !.environment = IF p.environment # "" THEN toLowerCase(p.environment) ELSE @,
     !.isPublic = IF p.isPublic # "undefined" THEN p.isPublic = "true" ELSE @]

\* Faulty variant of ValidDoc: nothing is validated.
ValidDoc_Always(audio) == TRUE

\* Mongoose validation of an edited document against the schema's enums.
ValidDoc(audio) == audio.mood \in MoodEnum /\ audio.environment \in EnvironmentEnum

\* The paths an assignment changed: assigning a path its loaded value does
\* not mark it modified.
Modified(audio, edited) ==
  {f \in {"mood", "environment", "isPublic"} : edited[f] # audio[f]}

\* Faulty variant of Written: the whole loaded document is written back.
Written_WholeDocument(stored, audio, modified) == audio

\* save() of an edited document writes its modified paths.
Written(stored, audio, modified) ==
  [f \in DOMAIN stored |-> IF f \in modified THEN audio[f] ELSE stored[f]]

\* Faulty variant of UpdateAudio_Find: no ownership check.
UpdateAudio_Find_NoOwnerCheck(r, u, id, p, dbFault) ==
  /\ Arrives(r)
  /\ Inject(B2N(dbFault))
  /\ LET audio == findById(id)
         code == IF dbFault THEN 500
                 ELSE IF audio = NoDoc \/ ~audio.isActive THEN 404 ELSE 200
     IN IF code = 200
        THEN /\ req' = [req EXCEPT ![r] =
                          [IdleReq EXCEPT !.op = "update", !.pc = "save", !.user = u,
                                          !.target = id, !.patch = p,
                                          !.doc = Patched(audio, p),
                                          !.modified = Modified(audio, Patched(audio, p))]]
             /\ UNCHANGED response
        ELSE /\ req' = [req EXCEPT ![r] = [Answered("update", code) EXCEPT
                                         !.user = u, !.target = id]]
             /\ response' = [Reply(r, "update", u, code) EXCEPT
                               !.target = id,
                               !.doc = IF dbFault THEN NoDoc ELSE audio]
  /\ UNCHANGED <<backend, limiter, now, objects, records, totalUploads, totalPlaylists,
                 accounts, current>>

\* updateAudio up to `await audio.save()`: 404, 403 for another user's
\* record, else the assignments.
UpdateAudio_Find(r, u, id, p, dbFault) ==
  /\ Arrives(r)
  /\ Inject(B2N(dbFault))
  /\ LET audio == findById(id)
         code == IF dbFault THEN 500
                 ELSE IF audio = NoDoc \/ ~audio.isActive THEN 404
                 ELSE IF audio.owner # u THEN 403 ELSE 200
     IN IF code = 200
        THEN /\ req' = [req EXCEPT ![r] =
                          [IdleReq EXCEPT !.op = "update", !.pc = "save", !.user = u,
                                          !.target = id, !.patch = p,
                                          !.doc = Patched(audio, p),
                                          !.modified = Modified(audio, Patched(audio, p))]]
             /\ UNCHANGED response
        ELSE /\ req' = [req EXCEPT ![r] = [Answered("update", code) EXCEPT
                                         !.user = u, !.target = id]]
             /\ response' = [Reply(r, "update", u, code) EXCEPT
                               !.target = id,
                               !.doc = IF dbFault THEN NoDoc ELSE audio]
  /\ UNCHANGED <<backend, limiter, now, objects, records, totalUploads, totalPlaylists,
                 accounts, current>>

\* `await audio.save()`: a ValidationError answers 400 and writes nothing;
\* a document deleted meanwhile makes save throw.
UpdateAudio_Save(r, dbFault) ==
  /\ req[r].op = "update" /\ req[r].pc = "save"
  /\ LET q == req[r]
         bad == ~ValidDoc(q.doc)
         stored == findById(q.target)
         code == IF bad THEN 400 ELSE IF dbFault \/ stored = NoDoc THEN 500 ELSE 200
     IN /\ Inject(B2N(~bad /\ dbFault))
        /\ bad => ~dbFault
        /\ IF code = 200
           THEN /\ records' = (records \ {stored}) \cup {Written(stored, q.doc, q.modified)}
                /\ req' = [req EXCEPT ![r] = [q EXCEPT !.pc = "populate"]]
                /\ UNCHANGED response
           ELSE /\ req' = [req EXCEPT ![r] = [Answered("update", code) EXCEPT
                                            !.user = q.user, !.target = q.target]]
                /\ response' = [Reply(r, "update", q.user, code) EXCEPT
                                  !.target = q.target, !.doc = q.doc]
                /\ UNCHANGED records
  /\ UNCHANGED <<backend, limiter, now, objects, totalUploads, totalPlaylists, accounts,
                 current>>

\* `await audio.populate(...)`, then the response with the edited record.
UpdateAudio_Populate(r, dbFault) ==
  /\ req[r].op = "update" /\ req[r].pc = "populate"
  /\ Inject(B2N(dbFault))
  /\ LET q == req[r]
         code == IF dbFault THEN 500 ELSE 200
     IN /\ req' = [req EXCEPT ![r] = [Answered("update", code) EXCEPT
                                         !.user = q.user, !.target = q.target]]
        /\ response' = [Reply(r, "update", q.user, code) EXCEPT
                          !.target = q.target, !.doc = q.doc, !.info = (code = 200)]
  /\ UNCHANGED <<backend, limiter, now, objects, records, totalUploads, totalPlaylists,
                 accounts, current>>

\* ------------------------------------------------------------- plays

\* Play requests (and the owner's updates) on one public record of the
\* catalogue, MaxPlays requests in all.
MaxPlays == 3

PlayReqs == 1..MaxPlays

PlayTarget == 2

PlayInit ==
  /\ backend = "local"
  /\ now = SevenDays + 1
  /\ faults = 0
  /\ records = Seeds
  /\ objects = {[key |-> a.key, by |-> a.id] : a \in Seeds}
  /\ totalUploads =
       [u \in Users |-> Cardinality({a \in Seeds : a.via = "mongo" /\ a.owner = u})]
  /\ req = [r \in PlayReqs |-> IdleReq]
  /\ totalPlaylists = [u \in Users |-> 0]
  /\ accounts = Registered
  /\ current = [u \in Names |-> Pass1]
  /\ response = NoResponse
  /\ limiter = NewLimiter(uploadRateLimit)

PlayNext ==
  \/ \E r \in PlayReqs, u \in Callers, f \in BOOLEAN :
        PlayAudio_Find(r, u, PlayTarget, f)
  \/ \E r \in PlayReqs, f \in BOOLEAN : PlayAudio_Save(r, f)
  \/ \E r \in PlayReqs, u \in Users, p \in Patches, f \in BOOLEAN :
        UpdateAudio_Find(r, u, PlayTarget, p, f)
  \/ \E r \in PlayReqs, f \in BOOLEAN : UpdateAudio_Save(r, f)
  \/ \E r \in PlayReqs, f \in BOOLEAN : UpdateAudio_Populate(r, f)

PlaySpec == PlayInit /\ [][PlayNext]_vars

\* ------------------------------------------------------ list handlers

Min(a, b) == IF a < b THEN a ELSE b

\* Every enumeration of S without repetition.
Perms(S) ==
  { s \in [1..Cardinality(S) -> S] :
      \A i, j \in 1..Cardinality(S) : i # j => s[i] # s[j] }

\* sort({ createdAt: -1 })
Newer(a, b) == a.createdAt > b.createdAt

\* sort({ 'stats.playCount': -1, createdAt: -1 })
MorePlayedNewer(a, b) ==
  \/ a.playCount > b.playCount
  \/ a.playCount = b.playCount /\ a.createdAt > b.createdAt

\* sort({ 'stats.playCount': -1, 'stats.likes': -1 })
MorePlayedLiked(a, b) ==
  \/ a.playCount > b.playCount
  \/ a.playCount = b.playCount /\ a.likes > b.likes

\* a comes strictly before b under the sort keys.
Before(keys, a, b) ==
  CASE keys = "createdAt" -> Newer(a, b)
    [] keys = "playCount,createdAt" -> MorePlayedNewer(a, b)
    [] keys = "playCount,likes" -> MorePlayedLiked(a, b)

\* find(...).sort(...): the documents in an order the sort keys allow (the
\* order of documents with equal keys is the database's choice).
sort(S, keys) ==
  { s \in Perms(S) : \A i, j \in 1..Cardinality(S) : i < j => ~Before(keys, s[j], s[i]) }

\* .skip(skip).limit(limit): a limit of 0 is no limit to the driver.
Page(s, skip, limit) ==
  SubSeq(s, skip + 1, IF limit = 0 THEN Len(s) ELSE Min(Len(s), skip + limit))

\* Faulty variant of ceil: the quotient is rounded down.
ceil_RoundsDown(totalCount, limit) == totalCount \div limit

\* Math.ceil(totalCount / limit) for limit >= 1.
ceil(totalCount, limit) == (totalCount + limit - 1) \div limit

\* The pagination object getUserAudio and searchAudio answer with.
Pagination(f, returned, totalCount) ==
  [ currentPage |-> f.page,
    totalPages |-> ceil(totalCount, f.limit),
    totalCount |-> totalCount,
    hasNext |-> (f.page - 1) * f.limit + returned < totalCount,
    hasPrev |-> f.page > 1 ]

\* { $regex: q, $options: 'i' } on the texts the records carry.
regex(q, text) == <<q, text>> \in {<<"t", "t">>}

\* Postgres ILIKE '%pattern%': the value contains the pattern, whatever the
\* case, on the values the rows carry.
ilike(value, pattern) ==
  \/ toLowerCase(value) = toLowerCase(pattern)
  \/ <<toLowerCase(pattern), toLowerCase(value)>> \in {<<"day", "rainy day">>}

\* The mood / environment / genre conditions of getUserAudio and searchAudio.
FilterQuery(a, f) ==
  /\ f.mood # "" => a.mood = toLowerCase(f.mood)
  /\ f.environment # "" => a.environment = toLowerCase(f.environment)
  /\ f.genre # "" => a.genre = toLowerCase(f.genre)

\* getUserAudio's query object.
UserAudioQuery(a, u, f) ==
  a.via = "mongo" /\ a.owner = u /\ a.isActive /\ FilterQuery(a, f)

\* searchAudio's query object; of the $or texts the records carry the title.
SearchQuery(a, f) ==
  /\ a.via = "mongo" /\ a.isActive /\ a.isPublic
  /\ f.q # "" => regex(f.q, a.title)
  /\ FilterQuery(a, f)

\* createPlaylist's query object, with and without includeOwn.
PlaylistQuery(a, u, f) ==
  /\ a.via = "mongo" /\ a.isActive
  /\ a.mood = toLowerCase(f.mood)
  /\ a.environment = toLowerCase(f.environment)
  /\ IF f.includeOwn THEN a.isPublic \/ a.owner = u ELSE a.isPublic

\* Audio.getTrending's query object at time t.
TrendingQuery(a, t) ==
  a.via = "mongo" /\ a.isActive /\ a.isPublic /\ a.createdAt >= t - SevenDays

\* getPlaylist's query on the audios table: select('*') and one ilike per
\* supplied filter.
SupaPlaylistQuery(a, f) ==
  /\ a.via = "supa"
  /\ f.mood # "" => ilike(a.mood, f.mood)
  /\ f.environment # "" => ilike(a.environment, f.environment)

\* The filters of getUserAudio's requests: none, or mood and environment.
UserAudioFilters ==
  { NoQuery, [NoQuery EXCEPT !.mood = "Calm", !.environment = "HOME"] }

\* The filters of searchAudio's requests.
SearchFilters ==
  { [NoQuery EXCEPT !.mood = "Calm", !.environment = "HOME"],
    [NoQuery EXCEPT !.mood = "calm", !.environment = "home", !.genre = "rock"],
    [NoQuery EXCEPT !.q = "zz"] }

\* req.query of getUserAudio and searchAudio, page and limit positive.
PageQueries(filters) ==
  { [f EXCEPT !.page = p, !.limit = l] :
      f \in filters, p \in 1..MaxPage, l \in 1..MaxLimit }

\* req.body of createPlaylist.
PlaylistQueries ==
  { [NoQuery EXCEPT !.environment = "home"],
    [NoQuery EXCEPT !.mood = "Happy", !.environment = "office", !.limit = MaxLimit] }
    \cup { [NoQuery EXCEPT !.mood = "Calm", !.environment = "home",
                           !.includeOwn = i, !.limit = l] :
             i \in BOOLEAN, l \in 1..MaxLimit }

\* req.body of getPlaylist.
SupaQueries ==
  { [NoQuery EXCEPT !.mood = m, !.environment = e] :
      m \in {"", "calm"}, e \in {"", "day"} }

Ids(S) == {a.id : a \in S}

\* getUserAudio up to `await Audio.countDocuments(query)`.
GetUserAudio_Find(r, u, f, dbFault) ==
  /\ Arrives(r)
  /\ Inject(B2N(dbFault))
  /\ LET pool == {a \in records : UserAudioQuery(a, u, f)}
     IN IF dbFault
        THEN /\ req' = [req EXCEPT ![r] = Answered("userAudio", 500)]
             /\ response' = [Reply(r, "userAudio", u, 500) EXCEPT !.query = f]
        ELSE /\ \E s \in sort(pool, "createdAt") :
                  req' = [req EXCEPT ![r] =
                            [IdleReq EXCEPT !.op = "userAudio", !.pc = "count",
                               !.user = u, !.query = f, !.pool = pool,
                               !.docs = Page(s, (f.page - 1) * f.limit, f.limit)]]
             /\ UNCHANGED response
  /\ UNCHANGED <<backend, limiter, now, objects, records, totalUploads, totalPlaylists,
                 accounts, current>>

\* `await Audio.countDocuments(query)` and the response.
GetUserAudio_Count(r, dbFault) ==
  /\ req[r].op = "userAudio" /\ req[r].pc = "count"
  /\ Inject(B2N(dbFault))
  /\ LET q == req[r]
         matching == {a \in records : UserAudioQuery(a, q.user, q.query)}
         code == IF dbFault THEN 500 ELSE 200
     IN /\ req' = [req EXCEPT ![r] = Answered("userAudio", code)]
        /\ response' =
             IF dbFault
             THEN [Reply(r, "userAudio", q.user, 500) EXCEPT !.query = q.query]
             ELSE [Reply(r, "userAudio", q.user, 200) EXCEPT
                     !.query = q.query, !.docs = q.docs,
                     !.pagination =
                        Pagination(q.query, Len(q.docs), Cardinality(matching)),
                     !.stable = (Ids(matching) = Ids(q.pool))]
  /\ UNCHANGED <<backend, limiter, now, objects, records, totalUploads, totalPlaylists,
                 accounts, current>>

\* searchAudio up to `await Audio.countDocuments(query)`. The handler never
\* reads req.userId: its requests are written as nobody's (caller 0).
SearchAudio_Find(r, f, dbFault) ==
  /\ Arrives(r)
  /\ Inject(B2N(dbFault))
  /\ LET pool == {a \in records : SearchQuery(a, f)}
     IN IF dbFault
        THEN /\ req' = [req EXCEPT ![r] = Answered("search", 500)]
             /\ response' = [Reply(r, "search", 0, 500) EXCEPT !.query = f]
        ELSE /\ \E s \in sort(pool, "playCount,createdAt") :
                  req' = [req EXCEPT ![r] =
                            [IdleReq EXCEPT !.op = "search", !.pc = "count",
                               !.query = f, !.pool = pool,
                               !.docs = Page(s, (f.page - 1) * f.limit, f.limit)]]
             /\ UNCHANGED response
  /\ UNCHANGED <<backend, limiter, now, objects, records, totalUploads, totalPlaylists,
                 accounts, current>>

\* `await Audio.countDocuments(query)` and the response.
SearchAudio_Count(r, dbFault) ==
  /\ req[r].op = "search" /\ req[r].pc = "count"
  /\ Inject(B2N(dbFault))
  /\ LET q == req[r]
         matching == {a \in records : SearchQuery(a, q.query)}
         code == IF dbFault THEN 500 ELSE 200
     IN /\ req' = [req EXCEPT ![r] = Answered("search", code)]
        /\ response' =
             IF dbFault
             THEN [Reply(r, "search", q.user, 500) EXCEPT !.query = q.query]
             ELSE [Reply(r, "search", q.user, 200) EXCEPT
                     !.query = q.query, !.docs = q.docs,
                     !.pagination =
                        Pagination(q.query, Len(q.docs), Cardinality(matching)),
                     !.stable = (Ids(matching) = Ids(q.pool))]
  /\ UNCHANGED <<backend, limiter, now, objects, records, totalUploads, totalPlaylists,
                 accounts, current>>

\* createPlaylist up to `await User.findByIdAndUpdate(...)`: 400 without mood
\* or environment, 404 when nothing matches.
CreatePlaylist_Find(r, u, f, dbFault) ==
  /\ Arrives(r)
  /\ Inject(B2N(dbFault))
  /\ LET missing == f.mood = "" \/ f.environment = ""
         pool == {a \in records : PlaylistQuery(a, u, f)}
     IN /\ missing => ~dbFault
        /\ IF missing \/ dbFault \/ pool = {}
           THEN LET code == IF missing THEN 400 ELSE IF dbFault THEN 500 ELSE 404
                IN /\ req' = [req EXCEPT ![r] = Answered("playlist", code)]
                   /\ response' = [Reply(r, "playlist", u, code) EXCEPT !.query = f]
           ELSE /\ \E s \in sort(pool, "playCount,createdAt") :
                     req' = [req EXCEPT ![r] =
                               [IdleReq EXCEPT !.op = "playlist", !.pc = "counter",
                                  !.user = u, !.query = f, !.pool = pool,
                                  !.docs = Page(s, 0, f.limit)]]
                /\ UNCHANGED response
  /\ UNCHANGED <<backend, limiter, now, objects, records, totalUploads, totalPlaylists,
                 accounts, current>>

\* `await User.findByIdAndUpdate(req.userId, {$inc: {'stats.totalPlaylists': 1}})`
\* and the response.
CreatePlaylist_Inc(r, dbFault) ==
  /\ req[r].op = "playlist" /\ req[r].pc = "counter"
  /\ Inject(B2N(dbFault))
  /\ LET q == req[r]
         code == IF dbFault THEN 500 ELSE 200
     IN /\ totalPlaylists' = IF dbFault THEN totalPlaylists
                             ELSE [totalPlaylists EXCEPT ![q.user] = @ + 1]
        /\ req' = [req EXCEPT ![r] = Answered("playlist", code)]
        /\ response' =
             IF dbFault
             THEN [Reply(r, "playlist", q.user, 500) EXCEPT !.query = q.query]
             ELSE [Reply(r, "playlist", q.user, 200) EXCEPT
                     !.query = q.query, !.docs = q.docs]
  /\ UNCHANGED <<backend, limiter, now, objects, records, totalUploads, accounts, current>>

\* getTrending: `await Audio.getTrending(parseInt(limit))` and the response.
\* The handler never reads req.userId.
TrendingReply(r, limit, dbFault) ==
  LET pool == {a \in records : TrendingQuery(a, now)}
      f == [NoQuery EXCEPT !.limit = limit]
  IN /\ req' = [req EXCEPT ![r] = Answered("trending", IF dbFault THEN 500 ELSE 200)]
     /\ IF dbFault
        THEN response' = [Reply(r, "trending", 0, 500) EXCEPT !.query = f]
        ELSE \E s \in sort(pool, "playCount,likes") :
               response' = [Reply(r, "trending", 0, 200) EXCEPT
                              !.query = f, !.docs = Page(s, 0, limit)]

GetTrending(r, limit, dbFault) ==
  /\ Arrives(r)
  /\ Inject(B2N(dbFault))
  /\ TrendingReply(r, limit, dbFault)
  /\ UNCHANGED <<backend, limiter, now, objects, records, totalUploads, totalPlaylists,
                 accounts, current>>

\* getPlaylist of the Supabase controller: 400 without any filter, else the
\* rows the query matches, in the database's order (there is no order clause).
GetPlaylist(r, u, f, error) ==
  /\ Arrives(r)
  /\ Inject(B2N(error))
  /\ LET missing == f.mood = "" /\ f.environment = ""
         pool == {a \in records : SupaPlaylistQuery(a, f)}
         code == IF missing THEN 400 ELSE IF error THEN 500 ELSE 200
     IN /\ missing => ~error
        /\ req' = [req EXCEPT ![r] = Answered("supaPlaylist", code)]
        /\ IF code # 200
           THEN response' = [Reply(r, "supaPlaylist", u, code) EXCEPT !.query = f]
           ELSE \E s \in Perms(pool) :
                  response' = [Reply(r, "supaPlaylist", u, 200) EXCEPT
                                 !.query = f, !.docs = s]
  /\ UNCHANGED <<backend, limiter, now, objects, records, totalUploads, totalPlaylists,
                 accounts, current>>

\* getUserAudios of the Supabase controller: the caller's rows, newest first.
GetUserAudios(r, u, error) ==
  /\ Arrives(r)
  /\ Inject(B2N(error))
  /\ LET pool == {a \in records : a.via = "supa" /\ a.owner = u}
     IN /\ req' = [req EXCEPT ![r] = Answered("supaUserAudios", IF error THEN 500 ELSE 200)]
        /\ IF error
           THEN response' = Reply(r, "supaUserAudios", u, 500)
           ELSE \E s \in sort(pool, "createdAt") :
                  response' = [Reply(r, "supaUserAudios", u, 200) EXCEPT !.docs = s]
  /\ UNCHANGED <<backend, limiter, now, objects, records, totalUploads, totalPlaylists,
                 accounts, current>>

CatalogNext ==
  \/ \E r \in Reqs, u \in Callers, id \in Targets, f \in BOOLEAN :
        GetAudio(r, u, id, f)
  \/ \E r \in Reqs, u \in Callers, id \in Targets, f \in BOOLEAN :
        PlayAudio_Find(r, u, id, f)
  \/ \E r \in Reqs, f \in BOOLEAN : PlayAudio_Save(r, f)
  \/ \E r \in Reqs, u \in Users, id \in Targets, p \in Patches, f \in BOOLEAN :
        UpdateAudio_Find(r, u, id, p, f)
  \/ \E r \in Reqs, f \in BOOLEAN : UpdateAudio_Save(r, f)
  \/ \E r \in Reqs, f \in BOOLEAN : UpdateAudio_Populate(r, f)
  \/ \E r \in Reqs, u \in Users, id \in Targets, f \in BOOLEAN, g \in BOOLEAN :
        DeleteAudio_Find(r, u, id, f, g)
  \/ \E r \in Reqs, f \in BOOLEAN : DeleteAudio_S3(r, f)
  \/ \E r \in Reqs, f \in BOOLEAN : DeleteAudio_Db(r, f)
  \/ \E r \in Reqs, f \in BOOLEAN : DeleteAudio_DecUploads(r, f)
  \/ \E r \in Reqs, u \in Users, q \in PageQueries(UserAudioFilters), f \in BOOLEAN :
        GetUserAudio_Find(r, u, q, f)
  \/ \E r \in Reqs, f \in BOOLEAN : GetUserAudio_Count(r, f)
  \/ \E r \in Reqs, q \in PageQueries(SearchFilters), f \in BOOLEAN :
        SearchAudio_Find(r, q, f)
  \/ \E r \in Reqs, f \in BOOLEAN : SearchAudio_Count(r, f)
  \/ \E r \in Reqs, u \in Users, q \in PlaylistQueries, f \in BOOLEAN :
        CreatePlaylist_Find(r, u, q, f)
  \/ \E r \in Reqs, f \in BOOLEAN : CreatePlaylist_Inc(r, f)
  \/ \E r \in Reqs, l \in 0..MaxLimit, f \in BOOLEAN : GetTrending(r, l, f)
  \/ \E r \in Reqs, u \in Callers, q \in SupaQueries, e \in BOOLEAN :
        GetPlaylist(r, u, q, e)
  \/ \E r \in Reqs, u \in Users, e \in BOOLEAN : GetUserAudios(r, u, e)

CatalogSpec == CatalogInit /\ [][CatalogNext]_vars

\* ------------------------------------------------------------ accounts

\* toJSON of the schema options as the constructor call leaves them.
constructed ==
  [toJSON |-> [transform |-> "deletePassword", virtuals |-> FALSE]]

\* Schema.prototype.set(key, value): the option is replaced, not merged.
set(options, key, value) == [options EXCEPT ![key] = value]

\* The options of userSchema when the model is compiled.
userSchema == set(constructed, "toJSON", [transform |-> "none", virtuals |-> TRUE])

\* The field names of JSON.stringify(doc) / doc.toJSON() of a User document.
toJSON(doc) ==
  LET own == {"id", "username", "email", "isActive"}
               \cup (IF doc.password = NoPassword THEN {} ELSE {"password"})
      ret == IF userSchema.toJSON.virtuals THEN own \cup {"fullName"} ELSE own
  IN IF userSchema.toJSON.transform = "deletePassword"
     THEN ret \ {"password"}
     ELSE ret

getPublicProfile == {"id", "username", "profile", "stats", "createdAt"}

\* .select('-password')
selectNoPassword(doc) == [doc EXCEPT !.password = NoPassword]

findUser(id) ==
  IF \E a \in accounts : a.id = id
  THEN CHOOSE a \in accounts : a.id = id
  ELSE NoUser

\* findOne({$or: [{email}, {username}]})
findByCredentials(credential) ==
  IF \E a \in accounts : a.email = credential \/ a.username = credential
  THEN CHOOSE a \in accounts : a.email = credential \/ a.username = credential
  ELSE NoUser

\* Schema validation of the modified paths (it runs before the save hooks).
Invalid(doc, modified) ==
  "password" \in modified /\ Len(doc.password) < MinLength

\* Faulty variant of preSave: the password is hashed at every save.
preSave_AlwaysHashes(doc, modified) ==
  [ doc |-> [doc EXCEPT !.password = hash(doc.password)],
    modified |-> modified \cup {"password"} ]

\* userSchema.pre('save'): the password is hashed only if it was modified.
preSave(doc, modified) ==
  IF "password" \notin modified
  THEN [doc |-> doc, modified |-> modified]
  ELSE [doc |-> [doc EXCEPT !.password = hash(doc.password)], modified |-> modified]

\* Faulty variant of updateOne: the whole document is written.
updateOne_WholeDocument(docs, doc, modified) ==
  { IF a.id # doc.id THEN a ELSE [doc EXCEPT !.password = a.password] : a \in docs }

\* save() of a loaded document: only the modified paths are written.
updateOne(docs, doc, modified) ==
  { IF a.id # doc.id
    THEN a
    ELSE [a EXCEPT !.password = IF "password" \in modified THEN doc.password ELSE @,
                   !.isActive = IF "isActive" \in modified THEN doc.isActive ELSE @]
    : a \in docs }

Saved(doc, modified) ==
  LET hooked == preSave(doc, modified)
  IN updateOne(accounts, hooked.doc, hooked.modified)

\* Faulty variant of Duplicate: only the username is unique.
Duplicate_UsernameOnly(doc) == \E a \in accounts : a.username = doc.username

\* The unique indexes on username and email.
Duplicate(doc) ==
  \E a \in accounts : a.username = doc.username \/ a.email = doc.email

RegisterBodies ==
  { [NoBody EXCEPT !.username = n, !.email = n, !.password = p] :
      n \in Users, p \in {Pass1, Short} }
  \cup { [NoBody EXCEPT !.username = 2, !.email = 2],
         [NoBody EXCEPT !.username = 3, !.email = 2, !.password = Pass1] }

LoginBodies ==
  { [NoBody EXCEPT !.username = n, !.password = p] : n \in Users, p \in {Pass1, Pass2} }
  \cup {[NoBody EXCEPT !.username = 1]}

ChangeBodies ==
  { [NoBody EXCEPT !.password = Pass1, !.newPassword = Pass2],
    [NoBody EXCEPT !.password = Pass2, !.newPassword = Pass1],
    [NoBody EXCEPT !.password = Pass1, !.newPassword = Short],
    [NoBody EXCEPT !.password = Pass1] }

DeactivateBodies ==
  { [NoBody EXCEPT !.password = Pass1], [NoBody EXCEPT !.password = Pass2], NoBody }

AccountOps == {"getProfile", "updateProfile", "changePassword", "deactivate"}

Bodies(op) ==
  CASE op = "changePassword" -> ChangeBodies
    [] op = "deactivate" -> DeactivateBodies
    [] OTHER -> {NoBody}

\* The request ends with a response.
Respond(r, op, u, code, fields) ==
  /\ req' = [req EXCEPT ![r] = [Answered(op, code) EXCEPT !.user = u]]
  /\ response' = [Reply(r, op, u, code) EXCEPT !.fields = fields]

AudioUnchanged ==
  UNCHANGED <<backend, limiter, now, objects, records, totalUploads, totalPlaylists>>

\* register up to its await User.findOne.
Register_Find(r, body, dbFault) ==
  /\ Arrives(r)
  /\ Inject(B2N(dbFault))
  /\ IF body.username = 0 \/ body.email = 0 \/ body.password = NoPassword
     THEN ~dbFault /\ Respond(r, "register", 0, 400, {})
     ELSE IF dbFault
     THEN Respond(r, "register", 0, 500, {})
     ELSE IF Duplicate([NoUser EXCEPT !.username = body.username, !.email = body.email])
     THEN Respond(r, "register", 0, 400, {})
     ELSE /\ req' = [req EXCEPT ![r] =
                       [IdleReq EXCEPT !.op = "register", !.pc = "save", !.body = body,
                          !.user = body.username,
                          !.udoc = [id |-> body.username, username |-> body.username,
                                    email |-> body.email, password |-> body.password,
                                    isActive |-> TRUE],
                          !.modified = {"username", "email", "password", "isActive"}]]
          /\ UNCHANGED response
  /\ AudioUnchanged
  /\ UNCHANGED <<accounts, current>>

\* register's first await user.save(): validation, the save hook, the insert.
Register_Save(r, dbFault) ==
  /\ req[r].op = "register" /\ req[r].pc = "save"
  /\ Inject(B2N(dbFault))
  /\ LET q == req[r]
         hooked == preSave(q.udoc, q.modified)
     IN IF Invalid(q.udoc, q.modified)
        THEN /\ ~dbFault
             /\ Respond(r, "register", q.user, 400, {})
             /\ UNCHANGED <<accounts, current>>
        ELSE IF dbFault \/ Duplicate(q.udoc)
        THEN /\ Respond(r, "register", q.user, 500, {})
             /\ UNCHANGED <<accounts, current>>
        ELSE /\ accounts' = accounts \cup {hooked.doc}
             /\ current' = [current EXCEPT ![q.udoc.id] = q.body.password]
             /\ req' = [req EXCEPT ![r] = [q EXCEPT !.pc = "saveLogin",
                                              !.udoc = hooked.doc,
                                              !.modified = {"lastLogin"}]]
             /\ UNCHANGED response
  /\ AudioUnchanged

\* register's second await user.save() (stats.lastLogin) and its response.
Register_SaveLogin(r, dbFault) ==
  /\ req[r].op = "register" /\ req[r].pc = "saveLogin"
  /\ Inject(B2N(dbFault))
  /\ LET q == req[r]
     IN IF dbFault
        THEN /\ Respond(r, "register", q.user, 500, {})
             /\ UNCHANGED accounts
        ELSE /\ accounts' = Saved(q.udoc, q.modified)
             /\ Respond(r, "register", q.user, 201, getPublicProfile)
  /\ AudioUnchanged
  /\ UNCHANGED current

\* login up to user.comparePassword.
Login_Find(r, body, dbFault) ==
  /\ Arrives(r)
  /\ Inject(B2N(dbFault))
  /\ LET user == findByCredentials(body.username)
     IN IF body.username = 0 \/ body.password = NoPassword
        THEN ~dbFault /\ Respond(r, "login", 0, 400, {})
        ELSE IF dbFault
        THEN Respond(r, "login", 0, 500, {})
        ELSE IF user = NoUser
        THEN Respond(r, "login", 0, 401, {})
        ELSE IF ~user.isActive \/ ~compare(body.password, user.password)
        THEN Respond(r, "login", user.id, 401, {})
        ELSE /\ req' = [req EXCEPT ![r] =
                          [IdleReq EXCEPT !.op = "login", !.pc = "save", !.body = body,
                             !.user = user.id, !.udoc = user,
                             !.modified = {"lastLogin"}]]
             /\ UNCHANGED response
  /\ AudioUnchanged
  /\ UNCHANGED <<accounts, current>>

\* login's await user.save() (stats.lastLogin) and its response.
Login_Save(r, dbFault) ==
  /\ req[r].op = "login" /\ req[r].pc = "save"
  /\ Inject(B2N(dbFault))
  /\ LET q == req[r]
     IN IF dbFault
        THEN /\ Respond(r, "login", q.user, 500, {})
             /\ UNCHANGED accounts
        ELSE /\ accounts' = Saved(q.udoc, q.modified)
             /\ Respond(r, "login", q.user, 200, getPublicProfile)
  /\ AudioUnchanged
  /\ UNCHANGED current

\* Faulty variant of authenticate: a deactivated user passes.
authenticate_IgnoresIsActive(t) ==
  IF t.kind # "valid" THEN NoUser ELSE selectNoPassword(findUser(t.userId))

\* The user a token authenticates, NoUser if none: the header checks,
\* jwt.verify, User.findById(decoded.userId).select('-password'), isActive.
authenticate(t) ==
  IF t.kind # "valid"
  THEN NoUser
  ELSE LET user == findUser(t.userId)
       IN IF user = NoUser \/ ~user.isActive THEN NoUser ELSE selectNoPassword(user)

\* authMiddleware for a request with the Authorization header t, and the
\* handler behind it up to its first await.
AuthMiddleware(r, t, op, body, dbFault) ==
  /\ Arrives(r)
  /\ dbFault => t.kind = "valid"
  /\ Inject(B2N(dbFault))
  /\ LET user == authenticate(t)
         u == t.userId
         refuse(code, gate) ==
           /\ req' = [req EXCEPT ![r] = [Answered(op, code) EXCEPT
                                           !.user = u, !.token = t, !.gate = gate]]
           /\ response' = Reply(r, op, u, code)
         respond(code, fields) ==
           /\ req' = [req EXCEPT ![r] = [Answered(op, code) EXCEPT
                                           !.user = u, !.token = t, !.gate = "passed"]]
           /\ response' = [Reply(r, op, u, code) EXCEPT !.fields = fields]
         next(pc, modified) ==
           /\ req' = [req EXCEPT ![r] =
                        [IdleReq EXCEPT !.op = op, !.pc = pc, !.body = body, !.user = u,
                           !.udoc = user, !.modified = modified,
                           !.token = t, !.gate = "passed"]]
           /\ UNCHANGED response
     IN IF dbFault
        THEN refuse(500, "failed")
        ELSE IF user = NoUser
        THEN refuse(401, "refused")
        ELSE CASE op = "getProfile" -> respond(200, getPublicProfile)
               [] op = "updateProfile" -> next("save", {"profile"})
               [] op = "changePassword" ->
                    IF body.password = NoPassword \/ body.newPassword = NoPassword
                       \/ Len(body.newPassword) < MinLength
                    THEN respond(400, {})
                    ELSE next("find", {})
               [] op = "deactivate" ->
                    IF body.password = NoPassword
                    THEN respond(400, {})
                    ELSE next("find", {})
  /\ AudioUnchanged
  /\ UNCHANGED <<accounts, current>>

\* optionalAuthMiddleware in front of GET /trending: req.userId is set only
\* for an authenticated caller; every failure continues without a user.
OptionalAuthMiddleware(r, t, dbFault) ==
  /\ Arrives(r)
  /\ dbFault => t.kind = "valid"
  /\ Inject(B2N(dbFault))
  /\ LET user == IF dbFault THEN NoUser ELSE authenticate(t)
     IN req' = [req EXCEPT ![r] =
                  [IdleReq EXCEPT !.op = "trending", !.pc = "handler", !.token = t,
                     !.user = user.id, !.udoc = user]]
  /\ AudioUnchanged
  /\ UNCHANGED <<accounts, current, response>>

\* getTrending behind optionalAuthMiddleware.
GetTrending_Handler(r, limit, dbFault) ==
  /\ req[r].op = "trending" /\ req[r].pc = "handler"
  /\ Inject(B2N(dbFault))
  /\ TrendingReply(r, limit, dbFault)
  /\ AudioUnchanged
  /\ UNCHANGED <<accounts, current>>

\* updateProfile's await user.save() of req.user, and its response.
UpdateProfile_Save(r, dbFault) ==
  /\ req[r].op = "updateProfile" /\ req[r].pc = "save"
  /\ Inject(B2N(dbFault))
  /\ LET q == req[r]
     IN IF dbFault
        THEN /\ Respond(r, q.op, q.user, 500, {})
             /\ UNCHANGED accounts
        ELSE /\ accounts' = Saved(q.udoc, q.modified)
             /\ Respond(r, q.op, q.user, 200, getPublicProfile)
  /\ AudioUnchanged
  /\ UNCHANGED current

\* changePassword: await User.findById, comparePassword, user.password = newPassword.
ChangePassword_Find(r, dbFault) ==
  /\ req[r].op = "changePassword" /\ req[r].pc = "find"
  /\ Inject(B2N(dbFault))
  /\ LET q == req[r]
         user == findUser(q.user)
     IN IF dbFault
        THEN Respond(r, q.op, q.user, 500, {})
        ELSE IF ~compare(q.body.password, user.password)
        THEN Respond(r, q.op, q.user, 401, {})
        ELSE /\ req' = [req EXCEPT ![r] =
                          [q EXCEPT !.pc = "save",
                                    !.udoc = [user EXCEPT !.password = q.body.newPassword],
                                    !.modified = IF q.body.newPassword # user.password
                                                 THEN {"password"} ELSE {}]]
             /\ UNCHANGED response
  /\ AudioUnchanged
  /\ UNCHANGED <<accounts, current>>

\* changePassword's await user.save() and its response.
ChangePassword_Save(r, dbFault) ==
  /\ req[r].op = "changePassword" /\ req[r].pc = "save"
  /\ Inject(B2N(dbFault))
  /\ LET q == req[r]
     IN IF dbFault \/ Invalid(q.udoc, q.modified)
        THEN /\ Respond(r, q.op, q.user, 500, {})
             /\ UNCHANGED <<accounts, current>>
        ELSE /\ accounts' = Saved(q.udoc, q.modified)
             /\ current' = [current EXCEPT ![q.user] = q.body.newPassword]
             /\ Respond(r, q.op, q.user, 200, {})
  /\ AudioUnchanged

\* deactivateAccount: await User.findById, comparePassword, user.isActive = false.
Deactivate_Find(r, dbFault) ==
  /\ req[r].op = "deactivate" /\ req[r].pc = "find"
  /\ Inject(B2N(dbFault))
  /\ LET q == req[r]
         user == findUser(q.user)
     IN IF dbFault
        THEN Respond(r, q.op, q.user, 500, {})
        ELSE IF ~compare(q.body.password, user.password)
        THEN Respond(r, q.op, q.user, 401, {})
        ELSE /\ req' = [req EXCEPT ![r] =
                          [q EXCEPT !.pc = "save",
                                    !.udoc = [user EXCEPT !.isActive = FALSE],
                                    !.modified = IF user.isActive
                                                 THEN {"isActive"} ELSE {}]]
             /\ UNCHANGED response
  /\ AudioUnchanged
  /\ UNCHANGED <<accounts, current>>

\* deactivateAccount's await user.save() and its response.
Deactivate_Save(r, dbFault) ==
  /\ req[r].op = "deactivate" /\ req[r].pc = "save"
  /\ Inject(B2N(dbFault))
  /\ LET q == req[r]
     IN IF dbFault
        THEN /\ Respond(r, q.op, q.user, 500, {})
             /\ UNCHANGED accounts
        ELSE /\ accounts' = Saved(q.udoc, q.modified)
             /\ Respond(r, q.op, q.user, 200, {})
  /\ AudioUnchanged
  /\ UNCHANGED current

\* Every request has been answered and its response delivered: the server
\* goes on serving requests.
NextRequests ==
  /\ \A r \in Reqs : req[r].pc = "done"
  /\ req' = [r \in Reqs |-> IdleReq]
  /\ response' = NoResponse
  /\ AudioUnchanged
  /\ UNCHANGED <<faults, accounts, current>>

\* User 1 is registered with Pass1; nobody else is.
AccountInit ==
  /\ backend = "local"
  /\ now = 0
  /\ faults = 0
  /\ objects = {}
  /\ records = {}
  /\ totalUploads = [u \in Users |-> 0]
  /\ req = [r \in Reqs |-> IdleReq]
  /\ totalPlaylists = [u \in Users |-> 0]
  /\ accounts = {a \in Registered : a.id = 1}
  /\ current = [u \in Names |-> IF u = 1 THEN Pass1 ELSE NoPassword]
  /\ response = NoResponse
  /\ limiter = NewLimiter(uploadRateLimit)

AccountNext ==
  \/ \E r \in Reqs, b \in RegisterBodies, f \in BOOLEAN : Register_Find(r, b, f)
  \/ \E r \in Reqs, f \in BOOLEAN : Register_Save(r, f)
  \/ \E r \in Reqs, f \in BOOLEAN : Register_SaveLogin(r, f)
  \/ \E r \in Reqs, b \in LoginBodies, f \in BOOLEAN : Login_Find(r, b, f)
  \/ \E r \in Reqs, f \in BOOLEAN : Login_Save(r, f)
  \/ \E r \in Reqs, t \in Tokens, op \in AccountOps, f \in BOOLEAN :
       \E b \in Bodies(op) : AuthMiddleware(r, t, op, b, f)
  \/ \E r \in Reqs, t \in Tokens, f \in BOOLEAN : OptionalAuthMiddleware(r, t, f)
  \/ \E r \in Reqs, f \in BOOLEAN : GetTrending_Handler(r, MaxLimit, f)
  \/ \E r \in Reqs, f \in BOOLEAN : UpdateProfile_Save(r, f)
  \/ \E r \in Reqs, f \in BOOLEAN : ChangePassword_Find(r, f)
  \/ \E r \in Reqs, f \in BOOLEAN : ChangePassword_Save(r, f)
  \/ \E r \in Reqs, f \in BOOLEAN : Deactivate_Find(r, f)
  \/ \E r \in Reqs, f \in BOOLEAN : Deactivate_Save(r, f)
  \/ NextRequests

AccountSpec == AccountInit /\ [][AccountNext]_vars

\* ------------------------------------------------------ specification

\* ------------------------------------------- the limiters on their own
LimitInit ==
  /\ backend = "local"
  /\ now = 0
  /\ faults = 0
  /\ objects = {}
  /\ records = {}
  /\ totalUploads = [u \in Users |-> 0]
  /\ req = [r \in Reqs |-> IdleReq]
  /\ totalPlaylists = [u \in Users |-> 0]
  /\ accounts = Registered
  /\ current = [u \in Names |-> Pass1]
  /\ response = NoResponse
  /\ limiter \in {NewLimiter(authRateLimit), NewLimiter(uploadRateLimit)}

LimitNext ==
  \/ \E k \in AllKeys : RateLimit_Request(k)
  \/ \E k \in AllKeys, status \in Statuses : RateLimit_Finish(k, status)
  \/ \E k \in AllKeys : RateLimit_Reset(k)

LimitSpec == LimitInit /\ [][LimitNext]_vars


Next ==
  \/ Tick
  \/ \E r \in Reqs, u \in Users, inp \in InputCases, f \in BOOLEAN :
        MulterUpload(r, u, inp, f)
  \/ \E r \in Reqs, f \in BOOLEAN, g \in BOOLEAN : UploadAudio_Validate(r, f, g)
  \/ \E r \in Reqs, f \in BOOLEAN, g \in BOOLEAN : UploadAudio_Save(r, f, g)
  \/ \E r \in Reqs, f \in BOOLEAN, g \in BOOLEAN : UploadAudio_IncUploads(r, f, g)
  \/ \E r \in Reqs, f \in BOOLEAN, g \in BOOLEAN : UploadAudio_Populate(r, f, g)
  \/ \E r \in Reqs, u \in Users, inp \in InputCases, f \in BOOLEAN :
        SupaUpload_Start(r, u, inp, f)
  \/ \E r \in Reqs, f \in BOOLEAN, g \in BOOLEAN : SupaUpload_S3Put(r, f, g)
  \/ \E r \in Reqs, e \in BOOLEAN, g \in BOOLEAN : SupaUpload_Insert(r, e, g)
  \/ \E r \in Reqs, f \in BOOLEAN : SupaUpload_Compensate(r, f)
  \/ \E r \in Reqs, u \in Users, id \in Reqs, f \in BOOLEAN, g \in BOOLEAN :
        DeleteAudio_Find(r, u, id, f, g)
  \/ \E r \in Reqs, f \in BOOLEAN : DeleteAudio_S3(r, f)
  \/ \E r \in Reqs, f \in BOOLEAN : DeleteAudio_Db(r, f)
  \/ \E r \in Reqs, f \in BOOLEAN : DeleteAudio_DecUploads(r, f)

Spec == Init /\ [][Next]_vars

\* ------------------------------------------------------------- claims

IsUpload(r) == req[r].op \in {"uploadMongo", "uploadSupa"}

Finished(r) == req[r].pc = "done"

Quiescent == \A r \in Reqs : req[r].pc \in {"idle", "done"}

Referenced(k) == \E a \in records : a.key = k

\* C1: every persisted AudioRecord was written by an upload request whose
\* store step had returned success, and carries the key that store produced.
C1_RecordOnlyAfterSuccessfulStore ==
  \A a \in records :
    /\ IsUpload(a.id)
    /\ req[a.id].storeOk
    /\ ~req[a.id].storeFailed
    /\ req[a.id].key = a.key

\* Both upload handlers have persisted a record.
C1_Witness ==
  /\ \E a \in records : a.via = "mongo"
  /\ \E a \in records : a.via = "supa"

\* C2: an upload whose store succeeded and whose metadata write failed is
\* rejected, and once it has completed (its cleanup not having failed) no
\* object written by it remains in the backend.
C2_FailedMetadataLeavesNoObject ==
  \A r \in Reqs :
    (IsUpload(r) /\ Finished(r) /\ req[r].storeOk /\ req[r].metaErr # "none"
       /\ ~req[r].rmFault)
      => /\ req[r].resp >= 400
         /\ ~\E o \in objects : o.by = r

\* C3: once every request has completed, an object no record references
\* exists only if a remove issued for it (or an fs call of the request that
\* wrote it) failed.
C3_OrphanOnlyAfterFailedRemove ==
  Quiescent =>
    \A o \in objects :
      \/ Referenced(o.key)
      \/ \E r \in Reqs : req[r].key = o.key /\ (req[r].rmFault \/ req[r].fsErr)

\* C4: a request whose store step failed has ended as a failed upload, has
\* persisted no record and has not changed the upload counter.
C4_StoreFailureWritesNothing ==
  \A r \in Reqs :
    req[r].storeFailed
      => /\ Finished(r)
         /\ req[r].resp = 500
         /\ ~req[r].counted
         /\ \A a \in records : a.id # r

\* A store failed while another upload's record is in place.
C4_Witness ==
  \E r \in Reqs :
    /\ req[r].storeFailed
    /\ Finished(r)
    /\ \E a \in records : a.id # r

\* C5: a persisted AudioRecord of the Mongoose model, with no delete request
\* for it in flight, always has its stored object.
C5_RecordObjectNeverGone ==
  \A a \in records :
    (/\ a.via = "mongo"
     /\ ~\E r \in Reqs : req[r].op = "delete" /\ req[r].target = a.id /\ ~Finished(r))
      => exists(objects, a.key)

\* C6: a storage remove called on a key whose object is absent, the backend
\* call itself not failing, does not raise and leaves the objects as they were.
C6_RemoveOfAbsentKeyIsNoop ==
  \A r \in Reqs :
    (req[r].rmCalled /\ req[r].rmAbsent /\ ~req[r].rmFault)
      => req[r].rmOut = "noop"

\* StorageService.deleteFile ran on a key another request had already removed.
C6_Witness ==
  \E r \in Reqs :
    /\ req[r].op = "uploadSupa"
    /\ req[r].rmCalled /\ req[r].rmAbsent /\ ~req[r].rmFault
    /\ req[r].rmOut = "noop"

\* C7: an owner's delete whose storage remove failed goes on to the database
\* delete; with no database failure it answers 200 and the record is gone.
C7_RemoveFailureNotPropagated ==
  \A r \in Reqs :
    (req[r].op = "delete" /\ req[r].rmFault /\ Finished(r) /\ ~req[r].dbErr)
      => /\ req[r].resp = 200
         /\ Found(req[r].target) = {}

\* A delete answered 200 although its storage remove had failed.
C7_Witness ==
  \E r \in Reqs :
    /\ req[r].op = "delete" /\ req[r].rmFault
    /\ Finished(r) /\ req[r].resp = 200
    /\ exists(objects, req[r].key)

\* C8: the response to a failed metadata write does not depend on whether
\* the compensating delete failed: a validation failure answers 400 either
\* way, and two uploads of one handler with the same metadata failure get
\* the same response.
C8_CompensationFailureKeepsResponse ==
  \A r \in Reqs :
    (IsUpload(r) /\ Finished(r) /\ req[r].metaErr # "none" /\ req[r].rmFault)
      => /\ req[r].metaErr = "ValidationError" => req[r].resp = 400
         /\ req[r].resp >= 400
         /\ \A s \in Reqs :
              (Finished(s) /\ req[s].op = req[r].op /\ req[s].metaErr = req[r].metaErr)
                => req[s].resp = req[r].resp

\* Two uploads failed validation; the cleanup failed for one of them only.
C8_Witness ==
  \E r, s \in Reqs :
    /\ r # s
    /\ Finished(r) /\ Finished(s)
    /\ req[r].metaErr = "ValidationError" /\ req[s].metaErr = "ValidationError"
    /\ req[r].rmFault /\ ~req[s].rmFault /\ req[s].rmOut = "removed"

\* C9: two uploads never hold the same storage key, and no two records
\* share a storageKey.
C9_DistinctStorageKeys ==
  /\ \A r, s \in Reqs :
       (r # s /\ IsUpload(r) /\ IsUpload(s) /\ req[r].key # NoKey /\ req[s].key # NoKey)
         => req[r].key # req[s].key
  /\ \A a, b \in records : a.id # b.id => a.key # b.key

\* C10: an upload without a file, or without mood or environment, that no
\* infrastructure failure hit, is answered 400 and creates no record.
C10_MissingFieldsRejected ==
  \A r \in Reqs :
    (/\ IsUpload(r) /\ Finished(r)
     /\ (~req[r].inp.file \/ req[r].inp.mood = "" \/ req[r].inp.environment = "")
     /\ ~req[r].fsErr /\ ~req[r].storeFailed /\ ~req[r].dbErr
     /\ req[r].metaErr = "none")
      => /\ req[r].resp = 400
         /\ \A a \in records : a.id # r

\* C11: the mood and the environment of every persisted AudioRecord are
\* members of the enumerated mood and environment sets (whose members are
\* all lower-case).
C11_MoodEnvironmentInEnum ==
  \A a \in records : a.mood \in MoodEnum /\ a.environment \in EnvironmentEnum

\* C12: get-by-id and play on an existing active record answer with the
\* record (or increment its play count) exactly when the record is public or
\* the caller is its owner; otherwise the answer is 403 without the record and
\* the step changes no record.
C12_GrantedIffPublicOrOwner ==
  [][ ( /\ response' # response
        /\ response'.op \in {"get", "play"}
        /\ response'.doc # NoDoc /\ response'.doc.isActive
        /\ response'.code # 500 )
      => LET audio == response'.doc
             visible == audio.isPublic \/ audio.owner = response'.caller
         IN /\ response'.info <=> visible
            /\ visible => response'.code = 200
            /\ (visible /\ response'.op = "play")
                 => \E a \in records' :
                      a.id = response'.target /\ a.playCount = audio.playCount
            /\ ~visible => (response'.code = 403 /\ records' = records) ]_vars

\* A get was answered with the record, and a play of user 1's private record
\* by somebody else has just been refused.
C12_Witness ==
  /\ \E r \in Reqs : req[r].op = "get" /\ req[r].resp = 200
  /\ response.op = "play" /\ response.code = 403
  /\ ~response.doc.isPublic /\ response.doc.owner # response.caller

\* C13: a caller who lacks visibility of an existing record (it is private
\* and somebody else's) gets from get-by-id, play and update the answer an id
\* without a record gets, which is 404.
C13_HiddenRecordLooksAbsent ==
  ( /\ response.op \in {"get", "play", "update"}
    /\ response.doc # NoDoc /\ response.doc.isActive
    /\ ~response.doc.isPublic /\ response.doc.owner # response.caller
    /\ response.code # 500 )
  => response.code = 404

\* C14: an update or delete request of an authenticated user for an existing
\* record of another user ends at once, with 403 (500 if the lookup failed),
\* and its step leaves the records, the stored objects and the upload
\* counters as they were.
C14_NonOwnerMutationRefused ==
  [][ \A r \in Reqs :
        ( /\ req[r].pc = "idle"
          /\ req'[r].op \in {"update", "delete"}
          /\ findById(req'[r].target) # NoDoc
          /\ findById(req'[r].target).owner # req'[r].user )
        => /\ req'[r].pc = "done"
           /\ req'[r].resp \in {403, 500}
           /\ faults' = faults => req'[r].resp = 403
           /\ UNCHANGED <<records, objects, totalUploads>> ]_vars

\* User 2 was refused both an update and a delete of a record of user 1,
\* which is still there with its object.
C14_Witness ==
  /\ \E r, s \in Reqs :
       /\ req[r].op = "update" /\ req[r].resp = 403 /\ req[r].user = 2
       /\ req[s].op = "delete" /\ req[s].resp = 403 /\ req[s].user = 2
  /\ records = Seeds
  /\ \A a \in Seeds : exists(objects, a.key)

ListOps == {"userAudio", "search", "playlist", "trending", "supaPlaylist", "supaUserAudios"}

\* C15: every record a list operation answers with is public or owned by the
\* caller.
C15_ListsOnlyVisible ==
  (response.op \in ListOps /\ response.code = 200)
    => \A i \in DOMAIN response.docs :
         response.docs[i].isPublic \/ response.docs[i].owner = response.caller

\* C16: every record a filtered list operation answers with equals each
\* supplied mood, environment and genre filter (letter case aside).
C16_ResultsEqualEveryFilter ==
  (response.op \in ListOps /\ response.code = 200)
    => \A i \in DOMAIN response.docs :
         LET a == response.docs[i]
             f == response.query
         IN /\ f.mood # "" => toLowerCase(a.mood) = toLowerCase(f.mood)
            /\ f.environment # ""
                 => toLowerCase(a.environment) = toLowerCase(f.environment)
            /\ f.genre # "" => toLowerCase(a.genre) = toLowerCase(f.genre)

\* The pagination a response with `returned` records must carry: totalPages
\* is the least number of pages of `limit` records that hold totalCount.
PaginationAsClaimed(f, returned, pg) ==
  /\ pg.totalPages * f.limit >= pg.totalCount
  /\ (pg.totalPages - 1) * f.limit < pg.totalCount \/ pg.totalPages = 0
  /\ \E rest \in {pg.totalCount - (f.page - 1) * f.limit} :
       returned = Min(f.limit, IF rest > 0 THEN rest ELSE 0)
  /\ pg.hasNext <=> ((f.page - 1) * f.limit + returned < pg.totalCount)
  /\ pg.hasPrev <=> (f.page > 1)

\* C17 as stated: every paginated response (page >= 1, limit >= 1) reports
\* totalPages = ceil(totalCount / limit), returns
\* min(limit, max(0, totalCount - (page - 1) * limit)) records, and has
\* hasNext = ((page - 1) * limit + returned < totalCount), hasPrev = (page > 1).
C17_Pagination ==
  (response.op \in {"userAudio", "search"} /\ response.code = 200)
    => PaginationAsClaimed(response.query, Len(response.docs), response.pagination)

\* C17: the same, for a paginated response between whose page query and
\* count query no record entered or left the set the query matches.
C17_PaginationOfStableQuery ==
  (response.op \in {"userAudio", "search"} /\ response.code = 200 /\ response.stable)
    => PaginationAsClaimed(response.query, Len(response.docs), response.pagination)

\* Three matching records, limit 1, page 2: one record, three pages, hasNext
\* and hasPrev.
C17_Witness ==
  /\ response.op = "userAudio" /\ response.code = 200 /\ response.stable
  /\ response.query.page = 2 /\ response.query.limit = 1
  /\ Len(response.docs) = 1
  /\ response.pagination.totalCount = 3 /\ response.pagination.totalPages = 3
  /\ response.pagination.hasNext /\ response.pagination.hasPrev

\* C18: a trending response holds only public, active records created within
\* the last 7 days, ordered by playCount descending and among equal playCounts
\* by likes descending, and no more of them than the requested limit.
C18_TrendingWindowOrderLimit ==
  (response.op = "trending" /\ response.code = 200)
    => LET s == response.docs
       IN /\ \A i \in DOMAIN s :
               /\ s[i].isPublic /\ s[i].isActive
               /\ s[i].createdAt >= response.at - SevenDays
          /\ \A i, j \in DOMAIN s :
               i < j => \/ s[i].playCount > s[j].playCount
                        \/ s[i].playCount = s[j].playCount /\ s[i].likes >= s[j].likes
          /\ Len(s) <= response.query.limit

\* The same for a positive limit.
TrendingOfPositiveLimit ==
  response.query.limit >= 1 => C18_TrendingWindowOrderLimit

Plaintexts == {Pass1, Pass2, Short}

\* C19: the stored password of every account is the one-way hash of the
\* password the account was last given (at register or change-password),
\* and never a plaintext; a save that did not modify the password leaves the
\* stored hash as it was.
C19_StoredPasswordIsHashOfCurrent ==
  \A a \in accounts :
    /\ a.password = hash(current[a.id])
    /\ a.password \notin Plaintexts
    /\ current[a.id] \in Plaintexts

\* User 2 has registered and logged in, user 1 has changed the password to
\* Pass2 and is deactivated.
C19_Witness ==
  /\ \E a \in accounts : a.id = 2 /\ a.password = hash(Pass1)
  /\ \E a \in accounts : a.id = 1 /\ a.password = hash(Pass2) /\ ~a.isActive
  /\ response.op = "login" /\ response.code = 200 /\ response.caller = 2

\* C20: no response carries the password field, and the JSON form of a User
\* document a handler has loaded has no password field.
C20_PasswordNeverSerialized ==
  /\ "password" \notin response.fields
  /\ \A r \in Reqs :
       req[r].udoc # NoUser => "password" \notin toJSON(req[r].udoc)

\* C21: a request passes authMiddleware only with a valid token that names
\* an existing user whose isActive is true; any other request ends in the
\* middleware with 401 (500 when the user lookup itself failed), and its
\* step changes no account, record, object or counter.
C21_GateAdmitsOnlyActiveTokenHolders ==
  [][ \A r \in Reqs :
        (req[r].pc = "idle" /\ req'[r].op \in AccountOps)
        => LET t == req'[r].token
               user == findUser(t.userId)
               admitted == t.kind = "valid" /\ user # NoUser /\ user.isActive
           IN /\ req'[r].gate = "passed" => admitted
              /\ (admitted /\ faults' = faults) => req'[r].gate = "passed"
              /\ ~admitted =>
                   /\ req'[r].pc = "done"
                   /\ req'[r].resp = IF faults' = faults THEN 401 ELSE 500
                   /\ UNCHANGED <<accounts, current, records, objects, totalUploads>> ]_vars

\* A request with the token of the deactivated user 1 was refused, and one
\* with the token of user 2 passed.
C21_Witness ==
  /\ \E a \in accounts : a.id = 1 /\ ~a.isActive
  /\ \E r, s \in Reqs :
       /\ req[r].gate = "refused" /\ req[r].resp = 401
       /\ req[r].token = [kind |-> "valid", userId |-> 1]
       /\ req[s].gate = "passed" /\ req[s].token.userId = 2

\* C23: no two persisted users share a username or an email, and a register
\* request whose username or email is held by a persisted user when it saves
\* ends with an error and creates no user.
C23_UsernamesAndEmailsUnique ==
  /\ [](\A a, b \in accounts : a # b => (a.username # b.username /\ a.email # b.email))
  /\ [][ \A r \in Reqs :
           ( /\ req[r].op = "register" /\ req[r].pc = "save" /\ req'[r] # req[r]
             /\ \E a \in accounts : \/ a.username = req[r].udoc.username
                                    \/ a.email = req[r].udoc.email )
           => (accounts' = accounts /\ req'[r].resp \in {400, 500}) ]_vars

\* Two concurrent registrations with the email 2: the one for the username 3
\* has created its user, the one for the username 2 was answered 500.
C23_Witness ==
  /\ faults = 0
  /\ \E s \in Reqs : /\ req[s].op = "register" /\ req[s].pc = "saveLogin"
                      /\ req[s].udoc.username = 3 /\ req[s].udoc.email = 2
                      /\ response.r # s
  /\ response.op = "register" /\ response.code = 500 /\ response.caller = 2
  /\ \A a \in accounts : a.username # 2

\* C27: a deactivated account stays deactivated, and a request that arrives
\* when the account is deactivated is refused by authMiddleware (401, or 500
\* when the lookup failed), is refused by login before any save, and passes
\* optionalAuthMiddleware without a user.
C27_DeactivationIsFinal ==
  [][ /\ \A a \in accounts : ~a.isActive => \E b \in accounts' : b.id = a.id /\ ~b.isActive
      /\ \A r \in Reqs :
           (req[r].pc = "idle" /\ req'[r].pc # "idle")
           => LET q == req'[r]
                  deactivated(u) == \E a \in accounts : a.id = u /\ ~a.isActive
              IN /\ (q.op \in AccountOps /\ q.token.kind = "valid"
                       /\ deactivated(q.token.userId))
                     => /\ q.pc = "done" /\ q.gate # "passed"
                        /\ q.resp = IF faults' = faults THEN 401 ELSE 500
                 /\ (q.op = "login" /\ deactivated(q.user))
                     => (q.pc = "done" /\ q.resp = 401)
                 /\ (q.op = "trending" /\ q.token.kind = "valid"
                       /\ deactivated(q.token.userId))
                     => (q.user = 0 /\ q.udoc = NoUser) ]_vars

\* User 1 is deactivated; a login of user 1 was just answered 401 and a
\* trending request with user 1's token runs without a user.
C27_Witness ==
  /\ \E a \in accounts : a.id = 1 /\ ~a.isActive
  /\ response.op = "login" /\ response.code = 401 /\ response.caller = 1
  /\ \E r \in Reqs : /\ req[r].op = "trending" /\ req[r].pc = "handler"
                      /\ req[r].token = [kind |-> "valid", userId |-> 1]
                      /\ req[r].user = 0

\* C24: an upload answered 201 has incremented its owner's upload counter,
\* and an upload whose counter update failed after the record was persisted
\* (no delete request being made for it) leaves the record and its stored
\* object in place.
C24_CounterFailureKeepsRecordAndObject ==
  \A r \in Reqs :
    (req[r].op = "uploadMongo" /\ Finished(r))
    => /\ req[r].resp = 201 => req[r].counted
       /\ ( /\ req[r].metaErr = "none" /\ req[r].dbErr /\ ~req[r].counted
            /\ ~\E d \in Reqs : req[d].op = "delete" /\ req[d].target = r )
          => \E a \in records : a.id = r /\ exists(objects, a.key)

\* C26: no upload counter is negative, and when every request has completed
\* and no failure has occurred, each user's upload counter equals the number
\* of AudioRecords the user owns.
C26_UploadCounterMatchesOwnedRecords ==
  /\ \A u \in Users : totalUploads[u] >= 0
  /\ (Quiescent /\ faults = 0)
       => \A u \in Users :
            totalUploads[u] = Cardinality({a \in records : a.via = "mongo" /\ a.owner = u})

\* C28: the save of an owner's update leaves every other record, the stored
\* objects and the upload counters as they were, and changes of the edited
\* record at most mood, environment and isPublic: a field absent from the
\* request keeps the value the record has, a supplied one gets the supplied
\* value (lower-cased) or keeps its value.
C28_UpdateWritesOnlySuppliedFields ==
  [][ \A r \in Reqs :
        (req[r].op = "update" /\ req[r].pc = "save" /\ req'[r] # req[r])
        => LET p == req[r].patch
               id == req[r].target
           IN /\ UNCHANGED <<objects, totalUploads>>
              /\ \A a \in records :
                   IF a.id # id
                   THEN a \in records'
                   ELSE \E b \in records' :
                          /\ records' = (records \ {a}) \cup {b}
                          /\ b = [a EXCEPT !.mood = b.mood,
                                           !.environment = b.environment,
                                           !.isPublic = b.isPublic]
                          /\ b.mood \in {a.mood} \cup
                               (IF p.mood = "" THEN {} ELSE {toLowerCase(p.mood)})
                          /\ b.environment \in {a.environment} \cup
                               (IF p.environment = "" THEN {}
                                ELSE {toLowerCase(p.environment)})
                          /\ b.isPublic \in {a.isPublic} \cup
                               (IF p.isPublic = "undefined" THEN {}
                                ELSE {p.isPublic = "true"}) ]_vars

\* The owner's update made a record private while a play that had loaded it
\* was counted: the record is private and has the play.
C28_Witness ==
  /\ response.op = "update" /\ response.code = 200 /\ ~response.doc.isPublic
  /\ \E a \in records : /\ a.id = response.target /\ ~a.isPublic
                         /\ a.playCount > response.doc.playCount

\* C29: an owner's update whose supplied mood or environment, lower-cased,
\* is outside the enumerated sets is answered 400 at its save, and every
\* update answered 400 leaves the records and the stored objects exactly as
\* they were.
C29_InvalidUpdateWritesNothing ==
  [][ \A r \in Reqs :
        (req[r].op = "update" /\ req[r].pc = "save" /\ req'[r] # req[r])
        => LET p == req[r].patch
               invalid == \/ p.mood # "" /\ toLowerCase(p.mood) \notin MoodEnum
                          \/ /\ p.environment # ""
                             /\ toLowerCase(p.environment) \notin EnvironmentEnum
           IN /\ invalid => (req'[r].pc = "done" /\ req'[r].resp = 400)
              /\ req'[r].resp = 400 => UNCHANGED <<records, objects, totalUploads>> ]_vars

\* An update with the mood "furious" was answered 400 and the record is the
\* one that was uploaded.
C29_Witness ==
  /\ response.op = "update" /\ response.code = 400 /\ response.doc.mood = "furious"
  /\ \E a \in Seeds : a.id = response.target /\ a \in records

\* The play requests that have completed with 200 on the record id.
Played(id) ==
  {r \in DOMAIN req : /\ req[r].op = "play" /\ req[r].pc = "done"
                      /\ req[r].resp = 200 /\ req[r].target = id}

\* After n completed plays a record's playCount is its initial value plus
\* at least 1 and at most n, and it is never negative.
PlayCountBounds ==
  \A a \in records :
    LET n == Cardinality(Played(a.id))
        a0 == CHOOSE s \in Seeds : s.id = a.id
    IN /\ a.playCount >= 0
       /\ a.playCount <= a0.playCount + n
       /\ n >= 1 => a.playCount >= a0.playCount + 1

\* The save of a play changes nothing but the playCount of its record, and
\* adds exactly one when no other play was saved since the record was loaded.
PlaySaveStep ==
  \A r \in DOMAIN req :
    (req[r].op = "play" /\ req[r].pc = "save" /\ req'[r] # req[r])
    => \A a \in records :
         IF a.id # req[r].target
         THEN a \in records'
         ELSE \E b \in records' :
                /\ records' = (records \ {a}) \cup {b}
                /\ b = [a EXCEPT !.playCount = b.playCount]
                /\ req'[r].resp # 200 => b = a
                /\ (req'[r].resp = 200 /\ a.playCount = req[r].doc.playCount)
                     => b.playCount = a.playCount + 1

\* No step lowers a playCount.
PlayCountMonotone ==
  \A a \in records : \E b \in records' : b.id = a.id /\ b.playCount >= a.playCount

C22_AtMostMaxRequestsPerWindow ==
  \A k \in DOMAIN limiter.hits :
    limiter.passed[k] <= limiter.config.max

====
